---- MODULE Spec2Model ----
(***************************************************************************)
(* Model of the benchmark-result aggregation core of biofaster             *)
(* (src/src/biofaster/funcitons.py): the benchmark key parser, the         *)
(* hyperfine result loader, the file-size resolver and the throughput      *)
(* derivation.  Python strings are sequences of one-character strings, so  *)
(* that lower(), split(), the `in` substring test and endswith() are       *)
(* computed character by character as the interpreter computes them.       *)
(***************************************************************************)
EXTENDS Integers, Sequences, FiniteSets, TLC

VARIABLES
  pc,          \* "idle" before a call, then the operation that ran
  name,        \* _parse_benchmark_key: the argument
  parsed,      \* _parse_benchmark_key: the value returned
  split_used,  \* _parse_benchmark_key: the generic split('_') was reached
  file,        \* parse_benchmark_data: the file behind json_path
  loaded,      \* parse_benchmark_data: outcome (raised, table, printed)
  call,        \* plot_throughput: the arguments and the test-data directory
  plotted,     \* plot_throughput: outcome (returned, throughput_rows, printed)
  result_path, \* get_file_size_bytes: json_path, as its components
  test_data,   \* get_file_size_bytes: the test-data directory
  sized,       \* get_file_size_bytes: the value returned and the fixture read
  view,        \* plot_mean_times: data_dict and cache_type
  grid,        \* plot_mean_times: outcome (returned, printed, the grid)
  scaling_call, \* plot_test_size_scaling: all_data, cache_type and file_format
  scaled,      \* plot_test_size_scaling: outcome (returned, points, analysis printed)
  size_labels, \* sorted(.., key=size_sort_key): the set of sizes
  sorted_sizes, \* sorted(.., key=size_sort_key): the sorted list
  scatter_dict, \* plot_scatter_runs: data_dict
  scattered,   \* plot_scatter_runs: outcome (returned, layout, the charts)
  compression_set, \* sorted(.., key=..get(x, 3)): the set of compressions
  columns,     \* sorted(.., key=..get(x, 3)): the sorted list
  cold_data,   \* plot_really_cold_scaling: all_data
  cold_scaled, \* plot_really_cold_scaling: outcome (returned, raised, printed)
  compare_data, \* compare_raw_vs_gzipped: all_data
  compared     \* compare_raw_vs_gzipped: outcome (returned, raised, printed)

vars == <<pc, name, parsed, split_used, file, loaded, call, plotted,
         result_path, test_data, sized, view, grid, scaling_call, scaled, size_labels,
         sorted_sizes, scatter_dict, scattered, compression_set, columns, cold_data,
         cold_scaled, compare_data, compared>>

(* ------------------------------------------------------------------ *)
(* Bounds                                                              *)
(* ------------------------------------------------------------------ *)
MaxTokens == 4
MaxDepth == 3
MaxResults == 2
MaxTables == 2
MaxRows == 2
MaxSizes == 3
MaxColumns == 4

(* ------------------------------------------------------------------ *)
(* String literals used by the source                                  *)
(* ------------------------------------------------------------------ *)
s_us == <<"_">>
s_hot == <<"h", "o", "t">>
s_cold == <<"c", "o", "l", "d">>
s_raw == <<"r", "a", "w">>
s_gz == <<"g", "z">>
s_bgz == <<"b", "g", "z">>
s_default == <<"d", "e", "f", "a", "u", "l", "t">>
s_really_cold == <<"r", "e", "a", "l", "l", "y", "_", "c", "o", "l", "d">>
s_really_cold_infix == s_us \o s_really_cold \o s_us

None == <<>>

(* ------------------------------------------------------------------ *)
(* Python str primitives                                               *)
(* ------------------------------------------------------------------ *)
UpperCase == <<"A", "B", "C", "D", "E", "F", "G", "H", "I", "J", "K", "L", "M",
               "N", "O", "P", "Q", "R", "S", "T", "U", "V", "W", "X", "Y", "Z">>
LowerCase == <<"a", "b", "c", "d", "e", "f", "g", "h", "i", "j", "k", "l", "m",
               "n", "o", "p", "q", "r", "s", "t", "u", "v", "w", "x", "y", "z">>

LowerMap ==
  [c \in {UpperCase[k] : k \in 1..Len(UpperCase)} |->
     LowerCase[CHOOSE k \in 1..Len(UpperCase) : UpperCase[k] = c]]

LowerChar(c) == IF c \in DOMAIN LowerMap THEN LowerMap[c] ELSE c

\* str.lower()
Lower(s) == [i \in 1..Len(s) |-> LowerChar(s[i])]

\* s.startswith(sub) at offset i (0-based)
MatchAt(s, sub, i) ==
  /\ i + Len(sub) <= Len(s)
  /\ \A j \in 1..Len(sub) : s[i + j] = sub[j]

\* s.find(sub, i): 0-based offset of the first occurrence at or after i, -1 if none
RECURSIVE FindFrom(_, _, _)
FindFrom(s, sub, i) ==
  IF i + Len(sub) > Len(s) THEN -1
  ELSE IF MatchAt(s, sub, i) THEN i
  ELSE FindFrom(s, sub, i + 1)

Find(s, sub) == FindFrom(s, sub, 0)

\* sub in s
Contains(s, sub) == Find(s, sub) # -1

\* s.endswith(suf)
EndsWith(s, suf) == Len(suf) <= Len(s) /\ MatchAt(s, suf, Len(s) - Len(suf))

\* s.split(sep): left-to-right, non-overlapping, empty fields kept
RECURSIVE Split(_, _)
Split(s, sep) ==
  LET i == Find(s, sep) IN
  IF i = -1 THEN <<s>>
  ELSE <<SubSeq(s, 1, i)>> \o Split(SubSeq(s, i + Len(sep) + 1, Len(s)), sep)

\* sep.join(parts)
RECURSIVE Join(_, _)
Join(parts, sep) ==
  IF Len(parts) = 0 THEN <<>>
  ELSE IF Len(parts) = 1 THEN parts[1]
  ELSE parts[1] \o sep \o Join(Tail(parts), sep)

(* ------------------------------------------------------------------ *)
(* _parse_benchmark_key                                                *)
(* ------------------------------------------------------------------ *)
CacheTokens == {s_hot, s_cold}
CompressionTokens == {s_raw, s_gz, s_bgz}

\* variant: 'bgz' missing from the accepted compressions
ParseReallyCold_NoBgz(name_lower) ==
  LET parts == Split(name_lower, s_really_cold_infix) IN
  IF Len(parts) = 2 /\ parts[2] \in {s_raw, s_gz}
    THEN <<parts[1], s_really_cold, parts[2]>>
    ELSE None

\* variant: a key "really_cold_<size>" is accepted as a raw really_cold key
ParseReallyCold_Prefix(name_lower) ==
  LET parts == Split(name_lower, s_really_cold_infix)
      tail == Split(name_lower, s_really_cold \o s_us) IN
  IF Len(parts) = 2 /\ parts[2] \in CompressionTokens
    THEN <<parts[1], s_really_cold, parts[2]>>
    ELSE IF Len(tail) = 2 /\ tail[1] = <<>>
      THEN <<tail[2], s_really_cold, s_raw>>
      ELSE None

\* the really_cold branch (lines 189-198)
ParseReallyCold(name_lower) ==
  LET parts == Split(name_lower, s_really_cold_infix) IN
  IF Len(parts) = 2 /\ parts[2] \in CompressionTokens
    THEN <<parts[1], s_really_cold, parts[2]>>
    ELSE None

\* variant: the legacy form tested on three parts instead of two
ParseLegacy_WrongLen(parts) ==
  IF Len(parts) = 3 /\ parts[1] \in CacheTokens /\ parts[2] \in CompressionTokens
    THEN <<s_default, parts[1], parts[2]>>
    ELSE None

\* the legacy two-part branch (lines 210-215)
ParseLegacy(parts) ==
  IF Len(parts) = 2 /\ parts[1] \in CacheTokens /\ parts[2] \in CompressionTokens
    THEN <<s_default, parts[1], parts[2]>>
    ELSE None

\* variant: 'cold' missing from the accepted cache states
ParseGeneric_HotOnly(name_lower) ==
  LET parts == Split(name_lower, s_us) IN
  IF Len(parts) >= 3 /\ parts[2] = s_hot /\ parts[3] \in CompressionTokens
    THEN <<parts[1], parts[2], parts[3]>>
    ELSE ParseLegacy(parts)

\* variant: the cache token is passed through unchecked
ParseGeneric_BestEffort(name_lower) ==
  LET parts == Split(name_lower, s_us) IN
  IF Len(parts) >= 3 /\ parts[3] \in CompressionTokens
    THEN <<parts[1], parts[2], parts[3]>>
    ELSE ParseLegacy(parts)

\* the generic underscore split (lines 200-215)
ParseGeneric(name_lower) ==
  LET parts == Split(name_lower, s_us) IN
  IF Len(parts) >= 3 /\ parts[2] \in CacheTokens /\ parts[3] \in CompressionTokens
    THEN <<parts[1], parts[2], parts[3]>>
    ELSE ParseLegacy(parts)

\* variant: the really_cold test made on the name as given, not lower-cased
IsReallyCold_CaseSensitive(nm) == Contains(nm, s_really_cold)

\* which branch the parser takes for a name (line 189)
IsReallyCold(nm) == Contains(Lower(nm), s_really_cold)

_parse_benchmark_key(nm) ==
  IF IsReallyCold(nm) THEN ParseReallyCold(Lower(nm)) ELSE ParseGeneric(Lower(nm))

(* ------------------------------------------------------------------ *)
(* Benchmark names the parser is applied to                            *)
(* ------------------------------------------------------------------ *)
s_1m == <<"1", "m">>
s_1M == <<"1", "M">>
s_Really_Cold == <<"R", "e", "a", "l", "l", "y", "_", "C", "o", "l", "d">>
s_10mb == <<"1", "0", "m", "b">>

\* pieces a name is joined from with "_"; really_cold is one piece of two tokens
Tokens == {s_1m, s_1M, s_hot, s_cold, s_raw, s_gz, s_bgz, s_10mb,
           s_really_cold, s_Really_Cold}

TokenSeqs(max) == UNION {[1..n -> Tokens] : n \in 1..max}

Names(max) == {Join(ts, s_us) : ts \in TokenSeqs(max)}

(* ------------------------------------------------------------------ *)
(* JSON values as json.load returns them                               *)
(* ------------------------------------------------------------------ *)
JNull == [t |-> "null"]
JNum(n) == [t |-> "num", v |-> n]
JStr(x) == [t |-> "str", v |-> x]
JList(xs) == [t |-> "list", v |-> xs]
JObj(f) == [t |-> "obj", v |-> f]

NoException == "none"

(* ------------------------------------------------------------------ *)
(* load_hyperfine_results                                              *)
(* ------------------------------------------------------------------ *)
\* open(json_path, 'r') then json.load(f): the exception raised, or the document
load_hyperfine_results(f) ==
  IF f.access = "missing" THEN [raised |-> "FileNotFoundError", data |-> JNull]
  ELSE IF f.access = "denied" THEN [raised |-> "PermissionError", data |-> JNull]
  ELSE IF f.text # "json" THEN [raised |-> "JSONDecodeError", data |-> JNull]
  ELSE [raised |-> NoException, data |-> f.doc]

(* ------------------------------------------------------------------ *)
(* parse_benchmark_data                                                *)
(* ------------------------------------------------------------------ *)
Schema == <<"command", "mean", "stddev", "median", "min", "max", "times">>

\* pl.DataFrame(schema={...}) with the seven typed columns and no row
EmptyTable == [columns |-> Schema, rows |-> <<>>]

\* result.get(key, default)
Get(obj, key, default) == IF key \in DOMAIN obj THEN obj[key] ELSE default

\* any(code != 0 for code in exit_codes)
AnyNonZero(codes) == \E i \in 1..Len(codes) : codes[i] # JNum(0)

\* variant: all(code != 0 ...) in place of any(...)
HasFailedRun_All(result) ==
  LET exit_codes == Get(result, "exit_codes", JList(<<>>)) IN
  /\ exit_codes.t = "list"
  /\ exit_codes.v # <<>>
  /\ \A i \in 1..Len(exit_codes.v) : exit_codes.v[i] # JNum(0)

\* lines 616-617: exit_codes is truthy and holds a non-zero code
HasFailedRun(result) ==
  LET exit_codes == Get(result, "exit_codes", JList(<<>>)) IN
  /\ exit_codes.t = "list"
  /\ exit_codes.v # <<>>
  /\ AnyNonZero(exit_codes.v)

\* line 618: sum(1 for code in exit_codes if code != 0)
FailedRuns(codes) == Cardinality({i \in 1..Len(codes) : codes[i] # JNum(0)})

\* variant: only a missing 'mean' counts, a null mean passes
NoTiming_MissingOnly(result) == "mean" \notin DOMAIN result

\* line 624: 'mean' not in result or result['mean'] is None
NoTiming(result) == "mean" \notin DOMAIN result \/ result["mean"] = JNull

\* variant: median, min and max defaulting to 0.0 like stddev
MakeRecord_ZeroDefaults(result) ==
  [command |-> result["command"],
   mean    |-> result["mean"],
   stddev  |-> Get(result, "stddev", JNum(0)),
   median  |-> Get(result, "median", JNum(0)),
   min     |-> Get(result, "min", JNum(0)),
   max     |-> Get(result, "max", JNum(0)),
   times   |-> Get(result, "times", JList(<<result["mean"]>>))]

\* lines 628-636: the record built for a surviving entry
MakeRecord(result) ==
  [command |-> result["command"],
   mean    |-> result["mean"],
   stddev  |-> Get(result, "stddev", JNum(0)),
   median  |-> Get(result, "median", result["mean"]),
   min     |-> Get(result, "min", result["mean"]),
   max     |-> Get(result, "max", result["mean"]),
   times   |-> Get(result, "times", JList(<<result["mean"]>>))]

\* variant: the records kept by command, a later entry of a command
\* taking the place of the earlier one
LoopStep_KeyedByCommand(acc, entry) ==
  IF acc.raised # NoException THEN acc
  ELSE IF entry.t # "obj" THEN [acc EXCEPT !.raised = "AttributeError"]
  ELSE LET result == entry.v
           shown == Get(result, "command", JStr("unknown")) IN
    IF HasFailedRun(result)
      THEN [acc EXCEPT !.printed = Append(@,
              [msg |-> "failed runs", command |-> shown,
               failed |-> FailedRuns(result["exit_codes"].v),
               runs |-> Len(result["exit_codes"].v)])]
    ELSE IF NoTiming(result)
      THEN [acc EXCEPT !.printed = Append(@, [msg |-> "no timing data", command |-> shown])]
    ELSE IF "command" \notin DOMAIN result
      THEN [acc EXCEPT !.raised = "KeyError"]
    ELSE IF \E i \in 1..Len(acc.records) : acc.records[i].command = result["command"]
      THEN [acc EXCEPT !.records =
              [i \in 1..Len(@) |->
                 IF @[i].command = result["command"] THEN MakeRecord(result) ELSE @[i]]]
    ELSE [acc EXCEPT !.records = Append(@, MakeRecord(result))]

\* one iteration of the loop of lines 613-637 on the accumulated outcome
LoopStep(acc, entry) ==
  IF acc.raised # NoException THEN acc
  ELSE IF entry.t # "obj" THEN [acc EXCEPT !.raised = "AttributeError"]
  ELSE LET result == entry.v
           shown == Get(result, "command", JStr("unknown")) IN
    IF HasFailedRun(result)
      THEN [acc EXCEPT !.printed = Append(@,
              [msg |-> "failed runs", command |-> shown,
               failed |-> FailedRuns(result["exit_codes"].v),
               runs |-> Len(result["exit_codes"].v)])]
    ELSE IF NoTiming(result)
      THEN [acc EXCEPT !.printed = Append(@, [msg |-> "no timing data", command |-> shown])]
    ELSE IF "command" \notin DOMAIN result
      THEN [acc EXCEPT !.raised = "KeyError"]
    ELSE [acc EXCEPT !.records = Append(@, MakeRecord(result))]

RECURSIVE Loop(_, _)
Loop(acc, entries) ==
  IF entries = <<>> THEN acc ELSE Loop(LoopStep(acc, Head(entries)), Tail(entries))

\* data['results'] and the start of iteration over it (line 613)
ResultsOf(data) ==
  IF data.t # "obj" THEN [raised |-> "TypeError", entries |-> <<>>]
  ELSE IF "results" \notin DOMAIN data.v THEN [raised |-> "KeyError", entries |-> <<>>]
  ELSE IF data.v["results"].t # "list" THEN [raised |-> "TypeError", entries |-> <<>>]
  ELSE [raised |-> NoException, entries |-> data.v["results"].v]

\* variant: no except clause around the load
Caught_Nothing(exc) == FALSE

\* the except clause of line 596
Caught(exc) == exc = "JSONDecodeError"

\* variant: the empty table built without its 'times' column
SkippedFile_NoTimes ==
  [raised |-> NoException,
   table |-> [columns |-> SubSeq(Schema, 1, 6), rows |-> <<>>],
   printed |-> <<[msg |-> "invalid or empty JSON"]>>]

\* lines 597-607: the handler of the except clause
SkippedFile ==
  [raised |-> NoException, table |-> EmptyTable,
   printed |-> <<[msg |-> "invalid or empty JSON"]>>]

\* a call that ends in an exception returns no table
Raise(exc, printed) == [raised |-> exc, table |-> [columns |-> <<>>, rows |-> <<>>], printed |-> printed]

parse_benchmark_data(f) ==
  LET ld == load_hyperfine_results(f) IN
  IF ld.raised # NoException
    THEN IF Caught(ld.raised) THEN SkippedFile ELSE Raise(ld.raised, <<>>)
  ELSE LET rs == ResultsOf(ld.data) IN
    IF rs.raised # NoException THEN Raise(rs.raised, <<>>)
    ELSE LET out == Loop([raised |-> NoException, records |-> <<>>, printed |-> <<>>], rs.entries) IN
      IF out.raised # NoException THEN Raise(out.raised, out.printed)
      ELSE IF out.records = <<>>
        THEN [raised |-> NoException, table |-> EmptyTable,
              printed |-> Append(out.printed, [msg |-> "no successful results"])]
        ELSE [raised |-> NoException,
              table |-> [columns |-> Schema, rows |-> out.records],
              printed |-> out.printed]

(* ------------------------------------------------------------------ *)
(* Result files the loader is applied to                               *)
(* ------------------------------------------------------------------ *)
\* the optional statistics an entry supplies
StatFields == {"stddev", "median", "min", "max", "times"}
StatValue ==
  [k \in StatFields |->
     CASE k = "stddev" -> JNum(1) [] k = "median" -> JNum(3) [] k = "min" -> JNum(1)
       [] k = "max" -> JNum(5) [] k = "times" -> JList(<<JNum(1), JNum(5)>>)]
StatChoices == {{}, StatFields} \cup {{k} : k \in StatFields}

Absent == [t |-> "absent"]
CommandChoices == {Absent, JStr("A"), JStr("B")}
MeanChoices == {Absent, JNull, JNum(0), JNum(2)}
ExitChoices == {Absent, JList(<<>>), JList(<<JNum(0), JNum(0)>>), JList(<<JNum(0), JNum(1)>>)}

\* the JSON object with the chosen fields
EntryOf(cmd, mean, codes, stats) ==
  LET keys == (IF cmd = Absent THEN {} ELSE {"command"})
                \cup (IF mean = Absent THEN {} ELSE {"mean"})
                \cup (IF codes = Absent THEN {} ELSE {"exit_codes"})
                \cup stats IN
  JObj([k \in keys |->
          CASE k = "command" -> cmd [] k = "mean" -> mean [] k = "exit_codes" -> codes
            [] OTHER -> StatValue[k]])

Entries ==
  {EntryOf(c, m, x, {}) : c \in CommandChoices, m \in MeanChoices, x \in ExitChoices}
    \cup {EntryOf(JStr("A"), JNum(2), Absent, st) : st \in StatChoices}
    \cup {JNum(7)}

ResultLists(max) == UNION {[1..n -> Entries] : n \in 0..max}

Documents(max) ==
  {JObj([results |-> JList(rs)]) : rs \in ResultLists(max)}
    \cup {JObj([other |-> JNum(1)]), JObj([results |-> JNull]), JList(<<>>)}

Files(max) ==
  {[access |-> "ok", text |-> "json", doc |-> d] : d \in Documents(max)}
    \cup {[access |-> "ok", text |-> tx, doc |-> JNull] : tx \in {"broken", "empty"}}
    \cup {[access |-> ac, text |-> "json", doc |-> JNull] : ac \in {"missing", "denied"}}

NoFile == [access |-> "missing", text |-> "json", doc |-> JNull]

(* ------------------------------------------------------------------ *)
(* Numbers                                                             *)
(* ------------------------------------------------------------------ *)
\* n / d * 1024^e: byte counts such as 4 * 1024**3 and the quotients
\* derived from them, kept exact
Q(n, d, e) == [n |-> n, d |-> d, e |-> e]

RECURSIVE Gcd(_, _)
Gcd(a, b) == IF b = 0 THEN a ELSE Gcd(b, a % b)

RECURSIVE Pow10(_)
Pow10(k) == IF k = 0 THEN 1 ELSE 10 * Pow10(k - 1)

(* ------------------------------------------------------------------ *)
(* get_file_size_bytes                                                 *)
(* ------------------------------------------------------------------ *)
s_slash == <<"/">>
s_m == <<"m">>
s_fastq == <<".", "f", "a", "s", "t", "q">>
s_fastq_gz == s_fastq \o <<".", "g", "z">>
s_fastq_bgzipped_gz == s_fastq \o <<"_", "b", "g", "z", "i", "p", "p", "e", "d", ".", "g", "z">>
s_json == <<".", "j", "s", "o", "n">>
s_100mb == <<"1", "0", "0", "m", "b">>
s_1gb == <<"1", "g", "b">>
s_4gb == <<"4", "g", "b">>

Digits == {"0", "1", "2", "3", "4", "5", "6", "7", "8", "9"}

Unknown == [known |-> FALSE, size |-> Q(0, 1, 0)]
Known(q) == [known |-> TRUE, size |-> q]

\* line 72, in decimal megabytes
ReallyColdSize_Decimal(json_path_str) ==
  IF Contains(json_path_str, s_really_cold \o s_us \o s_10mb) THEN Known(Q(10000000, 1, 0))
  ELSE IF Contains(json_path_str, s_really_cold \o s_us \o s_100mb) THEN Known(Q(100, 1, 2))
  ELSE IF Contains(json_path_str, s_really_cold \o s_us \o s_1gb) THEN Known(Q(1, 1, 3))
  ELSE IF Contains(json_path_str, s_really_cold \o s_us \o s_4gb) THEN Known(Q(4, 1, 3))
  ELSE Unknown

\* lines 71-78: the generated really-cold files
ReallyColdSize(json_path_str) ==
  IF Contains(json_path_str, s_really_cold \o s_us \o s_10mb) THEN Known(Q(10, 1, 2))
  ELSE IF Contains(json_path_str, s_really_cold \o s_us \o s_100mb) THEN Known(Q(100, 1, 2))
  ELSE IF Contains(json_path_str, s_really_cold \o s_us \o s_1gb) THEN Known(Q(1, 1, 3))
  ELSE IF Contains(json_path_str, s_really_cold \o s_us \o s_4gb) THEN Known(Q(4, 1, 3))
  ELSE Unknown

\* lines 81-85: the parent directory when it looks like a size, else <<>> (None)
TestSize(parts) ==
  IF Len(parts) >= 2
    THEN LET parent_dir == parts[Len(parts) - 1] IN
         IF EndsWith(parent_dir, s_m) /\ \E i \in 1..Len(parent_dir) : parent_dir[i] \in Digits
           THEN parent_dir ELSE <<>>
    ELSE <<>>

\* lines 88-95: the fixture suffix, <<>> when the path names no compression
FileSuffix(json_path_str) ==
  IF Contains(json_path_str, s_raw) THEN s_fastq
  ELSE IF Contains(json_path_str, s_bgz) THEN s_fastq_bgzipped_gz
  ELSE IF Contains(json_path_str, s_gz) THEN s_fastq_gz
  ELSE <<>>

\* a return of the try block: the value and the fixture whose size was taken
Return(value, file_path) == [raised |-> NoException, value |-> value, file_path |-> file_path]

\* lines 66-103, the try block. json_path is the sequence of its components;
\* disk is the test-data directory: whether it exists, whether looking into
\* it is refused (exists() raises PermissionError), and the size of each file
FileSizeBody(json_path, disk) ==
  LET json_path_str == Join(json_path, s_slash)
      fixed == ReallyColdSize(json_path_str)
      test_size == TestSize(json_path)
      file_suffix == FileSuffix(json_path_str)
      file_path == test_size \o file_suffix IN
  IF fixed.known THEN Return(fixed, None)
  ELSE IF file_suffix = <<>> THEN Return(Unknown, None)
  ELSE IF test_size = <<>> THEN Return(Unknown, None)
  ELSE IF disk.denied
    THEN [raised |-> "PermissionError", value |-> Unknown, file_path |-> None]
  ELSE IF disk.exists /\ file_path \in DOMAIN disk.files
    THEN Return(Known(disk.files[file_path]), file_path)
    ELSE Return(Unknown, None)

\* lines 65, 104-105: except Exception: return None
get_file_size_bytes(json_path, disk) ==
  LET body == FileSizeBody(json_path, disk) IN
  IF body.raised # NoException THEN Unknown ELSE body.value

(* ------------------------------------------------------------------ *)
(* plot_throughput                                                     *)
(* ------------------------------------------------------------------ *)
UpperChar(c) ==
  IF \E k \in 1..Len(LowerCase) : LowerCase[k] = c
    THEN UpperCase[CHOOSE k \in 1..Len(LowerCase) : LowerCase[k] = c]
    ELSE c

\* str.upper()
Upper(s) == [i \in 1..Len(s) |-> UpperChar(s[i])]

\* s.replace(c, '') for a one-character c
Remove(s, c) == SelectSeq(s, LAMBDA x : x # c)

RECURSIVE DigitsValue(_)
DigitsValue(s) ==
  IF s = <<>> THEN 0
  ELSE 10 * DigitsValue(SubSeq(s, 1, Len(s) - 1))
         + (CHOOSE v \in 0..9 : ToString(v) = s[Len(s)])

\* float(s) for s made of digits and '.': the value as a reduced fraction,
\* ok = FALSE where float() raises ValueError
ParseFloat(s) ==
  LET dots == {i \in 1..Len(s) : s[i] = "."}
      digs == SelectSeq(s, LAMBDA x : x \in Digits)
      frac == IF dots = {} THEN 0 ELSE Len(s) - (CHOOSE i \in dots : TRUE) IN
  IF /\ \A i \in 1..Len(s) : s[i] \in Digits \cup {"."}
     /\ Cardinality(dots) <= 1
     /\ digs # <<>>
    THEN LET n == DigitsValue(digs)
             d == Pow10(frac)
             g == Gcd(n, d) IN
         [ok |-> TRUE, num |-> n \div g, den |-> d \div g]
    ELSE [ok |-> FALSE, num |-> 0, den |-> 1]

\* lines 1316-1324
extract_size_info(key) ==
  LET size_str == Split(key, s_us)[1]
      f == ParseFloat(Remove(Remove(size_str, "m"), "M")) IN
  IF f.ok
    THEN [size_value |-> [num |-> f.num, den |-> f.den], ok |-> TRUE,
          size_str |-> size_str, display_str |-> Upper(size_str)]
    ELSE [size_value |-> [num |-> 0, den |-> 1], ok |-> FALSE,
          size_str |-> size_str, display_str |-> size_str]

\* variant: the comprehension without its 'really_cold' not in k
KeyMatches_NoExclusion(k, tbl, cache_type, file_format) ==
  /\ Contains(k, s_us \o cache_type \o s_us)
  /\ EndsWith(k, s_us \o file_format)
  /\ Len(tbl.rows) > 0

\* lines 1306-1309: the condition of the comprehension on one key
KeyMatches(k, tbl, cache_type, file_format) ==
  /\ Contains(k, s_us \o cache_type \o s_us)
  /\ EndsWith(k, s_us \o file_format)
  /\ ~Contains(k, s_really_cold)
  /\ Len(tbl.rows) > 0

\* row['stddev'] if row['stddev'] is not None else 0.0
StddevTime(row) == IF row.stddev = JNull THEN 0 ELSE row.stddev.v

\* variant: the spread divided by the mean once instead of by its square
ThroughputRow_LinearMean(row, size, info) ==
  LET mean_time == row.mean.v
      stddev_time == StddevTime(row) IN
  [size_value        |-> info.size_value,
   size_display      |-> info.display_str,
   command           |-> row.command,
   throughput_gbs    |-> Q(size.n, size.d * mean_time, size.e - 3),
   throughput_stddev |-> Q(size.n * stddev_time, size.d * mean_time, size.e - 3),
   file_size_mb      |-> Q(size.n, size.d, size.e - 2),
   mean_time         |-> row.mean]

\* lines 1354-1368: the throughput row of one run record
ThroughputRow(row, size, info) ==
  LET mean_time == row.mean.v
      stddev_time == StddevTime(row) IN
  [size_value        |-> info.size_value,
   size_display      |-> info.display_str,
   command           |-> row.command,
   throughput_gbs    |-> Q(size.n, size.d * mean_time, size.e - 3),
   throughput_stddev |-> Q(size.n * stddev_time, size.d * mean_time * mean_time, size.e - 3),
   file_size_mb      |-> Q(size.n, size.d, size.e - 2),
   mean_time         |-> row.mean]

\* variant: the guard written mean_time >= 0
Computable_AllowZero(row) == row.mean.v >= 0

\* line 1352: if mean_time > 0
Computable(row) == row.mean.v > 0

\* lines 1348-1368: the rows one table contributes
RECURSIVE TableRows(_, _, _)
TableRows(rows, size, info) ==
  IF rows = <<>> THEN <<>>
  ELSE (IF Computable(Head(rows)) THEN <<ThroughputRow(Head(rows), size, info)>> ELSE <<>>)
         \o TableRows(Tail(rows), size, info)

\* variant: an unknown size counted as 0 bytes instead of skipping the key
KeyStep_ZeroSize(acc, item, available_results, disk) ==
  IF item.key \notin DOMAIN available_results THEN acc
  ELSE LET file_size_bytes == get_file_size_bytes(available_results[item.key], disk) IN
       LET info == extract_size_info(item.key) IN
    IF ~info.ok THEN acc
    ELSE [acc EXCEPT !.rows = @ \o TableRows(item.table.rows, file_size_bytes.size, info)]

\* lines 1330-1368: one iteration of the loop over matching_keys
KeyStep(acc, item, available_results, disk) ==
  IF item.key \notin DOMAIN available_results THEN acc
  ELSE LET file_size_bytes == get_file_size_bytes(available_results[item.key], disk) IN
    IF ~file_size_bytes.known \/ file_size_bytes.size.n = 0
      THEN [acc EXCEPT !.printed = Append(@, [msg |-> "could not get file size", key |-> item.key])]
    ELSE LET info == extract_size_info(item.key) IN
      IF ~info.ok THEN acc
      ELSE [acc EXCEPT !.rows = @ \o TableRows(item.table.rows, file_size_bytes.size, info)]

RECURSIVE KeyLoop(_, _, _, _)
KeyLoop(acc, items, available_results, disk) ==
  IF items = <<>> THEN acc
  ELSE KeyLoop(KeyStep(acc, Head(items), available_results, disk), Tail(items),
               available_results, disk)

\* all_data is the sequence of (key, table) items of the dict in insertion order
plot_throughput(all_data, available_results, cache_type, file_format, disk) ==
  LET matching == SelectSeq(all_data,
                    LAMBDA it : KeyMatches(it.key, it.table, cache_type, file_format)) IN
  IF matching = <<>>
    THEN [returned |-> "None", rows |-> <<>>, printed |-> <<[msg |-> "no results found"]>>]
  ELSE LET out == KeyLoop([rows |-> <<>>, printed |-> <<>>], matching, available_results, disk) IN
    IF out.rows = <<>>
      THEN [returned |-> "None", rows |-> <<>>,
            printed |-> Append(out.printed, [msg |-> "no throughput data"])]
      ELSE [returned |-> "chart", rows |-> out.rows, printed |-> out.printed]

(* ------------------------------------------------------------------ *)
(* Tables, result paths and fixture files plot_throughput is applied to *)
(* ------------------------------------------------------------------ *)
s_10m == <<"1", "0", "m">>
s_bench == <<"b", "e", "n", "c", "h">>

\* a run record as parse_benchmark_data builds it
RunRecord(cmd, mean, stddev) ==
  [command |-> JStr(cmd), mean |-> JNum(mean), stddev |-> stddev, median |-> JNum(mean),
   min |-> JNum(mean), max |-> JNum(mean), times |-> JList(<<JNum(mean)>>)]

Timings == {<<0 - 1, JNum(1)>>, <<0, JNull>>, <<2, JNum(1)>>, <<4, JNull>>}
Commands == <<"A", "B", "C">>

RowLists(max) == UNION {[1..n -> Timings] : n \in 0..max}
TableOf(ts) ==
  [columns |-> Schema,
   rows |-> [i \in 1..Len(ts) |-> RunRecord(Commands[((i - 1) % 3) + 1], ts[i][1], ts[i][2])]]
Tables(max) == {TableOf(ts) : ts \in RowLists(max)}

PlotKeys ==
  {Join(<<s_1m, s_hot, s_raw>>, s_us), Join(<<s_10m, s_hot, s_raw>>, s_us),
   Join(<<s_1m, s_cold, s_gz>>, s_us)}

\* benchmark_results layout: <batch>/<size>/<cache>_<compression>.json
PathOf(key) ==
  LET parts == Split(key, s_us) IN
  <<s_bench, parts[1], parts[2] \o s_us \o parts[3] \o s_json>>

ResultPaths == [k \in PlotKeys |-> PathOf(k)]

KeyLists(max) ==
  {ks \in UNION {[1..n -> PlotKeys] : n \in 0..max} :
     \A i, j \in 1..Len(ks) : i # j => ks[i] # ks[j]}

\* the tables of the keys after the first: empty, one record, or a failed and a good record
OtherTables ==
  {TableOf(<<>>), TableOf(<<<<4, JNull>>>>), TableOf(<<<<0, JNull>>>>),
   TableOf(<<<<0 - 1, JNum(1)>>, <<2, JNum(1)>>>>)}

\* the dict: the first key holds any table, the later keys one of OtherTables
AllDatas(tables, rows) ==
  UNION {{[i \in 1..Len(ks) |-> [key |-> ks[i], table |-> IF i = 1 THEN t1 ELSE tb[i]]] :
            t1 \in Tables(rows), tb \in [2..Len(ks) -> OtherTables]}
           : ks \in KeyLists(tables)}

\* test-data with every fixture, and test-data without the 10m fixtures
FullDisk ==
  [exists |-> TRUE, denied |-> FALSE,
   files |-> [f \in {s_1m \o s_fastq, s_1m \o s_fastq_gz, s_10m \o s_fastq} |->
                IF f = s_10m \o s_fastq THEN Q(3000, 1, 0) ELSE Q(300, 1, 0)]]
PartialDisk ==
  [exists |-> TRUE, denied |-> FALSE,
   files |-> [f \in {s_1m \o s_fastq, s_1m \o s_fastq_gz} |-> Q(300, 1, 0)]]
DeniedDisk == [FullDisk EXCEPT !.denied = TRUE]
Disks == {FullDisk, PartialDisk, DeniedDisk}

Queries == {<<s_hot, s_raw>>, <<s_cold, s_gz>>}

\* available_results names the result file of every key of all_data
CallOf(ad, q, dk) ==
  [all_data |-> ad,
   available_results |-> [k \in {ad[i].key : i \in 1..Len(ad)} |-> ResultPaths[k]],
   cache_type |-> q[1], file_format |-> q[2], disk |-> dk]

Calls(tables, rows) ==
  {CallOf(ad, q, dk) : ad \in AllDatas(tables, rows), q \in Queries, dk \in Disks}

NoCall == CallOf(<<>>, <<s_hot, s_raw>>, PartialDisk)

(* ------------------------------------------------------------------ *)
(* Result paths and test-data directories get_file_size_bytes is asked *)
(* ------------------------------------------------------------------ *)
\* directory names: a batch, a name holding "raw", sizes, a really-cold label
DirNames == {s_bench, s_raw, s_1m, s_10m, s_1M, s_really_cold \o s_us \o s_4gb}

Stems ==
  {Join(<<s_hot, s_raw>>, s_us), Join(<<s_hot, s_gz>>, s_us), Join(<<s_hot, s_bgz>>, s_us),
   Join(<<s_cold, s_gz>>, s_us), s_hot,
   Join(<<s_really_cold, s_10mb>>, s_us), Join(<<s_really_cold, s_100mb>>, s_us),
   Join(<<s_really_cold, s_1gb>>, s_us), Join(<<s_really_cold, s_4gb, s_gz>>, s_us),
   Join(<<s_1m, s_really_cold, s_raw>>, s_us)}

\* the components of a relative path: directories, then <stem>.json
Paths(depth) ==
  UNION {{Append(ds, st \o s_json) : ds \in [1..n -> DirNames], st \in Stems} :
           n \in 0..(depth - 1)}

NoPath == <<s_json>>

\* test-data holding every fixture (one of them an empty file)
AllFixtures ==
  [exists |-> TRUE, denied |-> FALSE,
   files |-> [f \in {s_1m \o s_fastq, s_1m \o s_fastq_gz, s_1m \o s_fastq_bgzipped_gz,
                     s_10m \o s_fastq, s_10m \o s_fastq_gz} |->
                IF f = s_1m \o s_fastq THEN Q(100, 1, 0)
                ELSE IF f = s_1m \o s_fastq_gz THEN Q(50, 1, 0)
                ELSE IF f = s_1m \o s_fastq_bgzipped_gz THEN Q(60, 1, 0)
                ELSE IF f = s_10m \o s_fastq THEN Q(1000, 1, 0)
                ELSE Q(0, 1, 0)]]

\* test-data holding the uncompressed fixtures only
RawOnly ==
  [exists |-> TRUE, denied |-> FALSE,
   files |-> [f \in {s_1m \o s_fastq, s_10m \o s_fastq} |-> AllFixtures.files[f]]]

\* no test-data directory
NoTestData == [exists |-> FALSE, denied |-> FALSE, files |-> [f \in {} |-> Q(0, 1, 0)]]

TestDatas == {AllFixtures, RawOnly, NoTestData, [AllFixtures EXCEPT !.denied = TRUE]}

(* ------------------------------------------------------------------ *)
(* plot_mean_times (grid_layout=True, file_sizes=None)                 *)
(* ------------------------------------------------------------------ *)
\* a sort key as a fraction, and the order of two of them
Frac(num, den) == [num |-> num, den |-> den]
Less(a, b) == a.num * b.den < b.num * a.den

\* sorted(set(...), key=...), key the function giving each element its sort
\* key: a set has no order of its own and the sort is stable, so elements
\* with equal keys come out in any order
SortedOrders(S, key) ==
  {sq \in [1..Cardinality(S) -> S] :
     /\ \A i, j \in 1..Cardinality(S) : (i # j) => (sq[i] # sq[j])
     /\ \A i, j \in 1..Cardinality(S) : (i < j) => ~Less(key[sq[j]], key[sq[i]])}

\* variant: gz and bgz keyed the other way round
CompressionKey_BgzFirst(x) ==
  IF x = s_raw THEN Frac(0, 1)
  ELSE IF x = s_gz THEN Frac(2, 1)
  ELSE IF x = s_bgz THEN Frac(1, 1)
  ELSE Frac(3, 1)

\* line 265: {'raw': 0, 'gz': 1, 'bgz': 2}.get(x, 3)
CompressionKey(x) ==
  IF x = s_raw THEN Frac(0, 1)
  ELSE IF x = s_gz THEN Frac(1, 1)
  ELSE IF x = s_bgz THEN Frac(2, 1)
  ELSE Frac(3, 1)

\* lines 268-274
size_sort_key(s) ==
  IF s = s_default THEN Frac(0, 1)
  ELSE LET f == ParseFloat(Remove(Remove(s, "m"), "M")) IN
       IF f.ok THEN Frac(f.num, f.den) ELSE Frac(999, 1)

\* organized_data[cell] = value on a dict kept as the sequence of its items
Put(od, cell, value) ==
  IF \E i \in 1..Len(od) : od[i].cell = cell
    THEN [i \in 1..Len(od) |-> IF od[i].cell = cell THEN [cell |-> cell, value |-> value]
                                ELSE od[i]]
    ELSE Append(od, [cell |-> cell, value |-> value])

\* variant: no filter on the cache state
OrganizeStep_AnyCache(acc, item, cache_type) ==
  IF item.table.rows = <<>>
    THEN [acc EXCEPT !.printed = Append(@, [msg |-> "no successful results", key |-> item.key])]
  ELSE LET key3 == _parse_benchmark_key(item.key) IN
    IF key3 = None THEN acc
    ELSE [acc EXCEPT !.organized_data = Put(@, <<key3[3], key3[1]>>, item)]

\* lines 242-257: one iteration of the loop over data_dict.items()
OrganizeStep(acc, item, cache_type) ==
  IF item.table.rows = <<>>
    THEN [acc EXCEPT !.printed = Append(@, [msg |-> "no successful results", key |-> item.key])]
  ELSE LET key3 == _parse_benchmark_key(item.key) IN
    IF key3 = None THEN acc
    ELSE IF key3[2] # cache_type THEN acc
    ELSE [acc EXCEPT !.organized_data = Put(@, <<key3[3], key3[1]>>, item)]

RECURSIVE Organize(_, _, _)
Organize(acc, items, cache_type) ==
  IF items = <<>> THEN acc
  ELSE Organize(OrganizeStep(acc, Head(items), cache_type), Tail(items), cache_type)

\* lines 285-294: the combined row of one run record
CombinedRow(row, entry) ==
  [command |-> row.command, mean |-> row.mean,
   stddev |-> IF row.stddev = JNull THEN JNum(0) ELSE row.stddev,
   min |-> row.min, max |-> row.max,
   compression |-> entry.cell[1], size |-> entry.cell[2],
   benchmark_name |-> entry.value.key]

\* lines 283-294
RECURSIVE CombinedRows(_)
CombinedRows(od) ==
  IF od = <<>> THEN <<>>
  ELSE [i \in 1..Len(Head(od).value.table.rows) |->
          CombinedRow(Head(od).value.table.rows[i], Head(od))]
         \o CombinedRows(Tail(od))

\* line 303: sorted(unique commands); Commands lists the command names in
\* alphabetical order
AllParsers(combined_rows) ==
  SelectSeq(Commands,
            LAMBDA c : \E i \in 1..Len(combined_rows) : combined_rows[i].command = JStr(c))

\* line 278 and lines 351, 365
CompressionLabel(compression) ==
  IF compression = s_raw THEN "Raw FASTQ"
  ELSE IF compression = s_gz THEN "Gzipped"
  ELSE IF compression = s_bgz THEN "Bgzipped"
  ELSE compression

\* variant: the colour domain taken from the cell's own rows
Cell_OwnDomain(compression, size, od, combined_rows, all_parsers) ==
  IF \E i \in 1..Len(od) : od[i].cell = <<compression, size>>
    THEN LET data == SelectSeq(combined_rows,
                               LAMBDA r : r.compression = compression /\ r.size = size) IN
         [mark |-> "bar", title |-> CompressionLabel(compression), data |-> data,
          domain |-> AllParsers(data)]
    ELSE [mark |-> "No Data", title |-> CompressionLabel(compression),
          data |-> <<[command |-> JStr("N/A"), mean |-> JNum(0)]>>,
          domain |-> <<>>]

\* lines 313-369: the chart of one cell
Cell(compression, size, od, combined_rows, all_parsers) ==
  IF \E i \in 1..Len(od) : od[i].cell = <<compression, size>>
    THEN [mark |-> "bar", title |-> CompressionLabel(compression),
          data |-> SelectSeq(combined_rows,
                             LAMBDA r : r.compression = compression /\ r.size = size),
          domain |-> all_parsers]
    ELSE [mark |-> "No Data", title |-> CompressionLabel(compression),
          data |-> <<[command |-> JStr("N/A"), mean |-> JNum(0)]>>,
          domain |-> <<>>]

\* lines 310-382: the row of one size
GridRow(size, compressions, od, combined_rows, all_parsers) ==
  [label |-> IF size # s_default THEN Upper(size) ELSE <<"D", "e", "f", "a", "u", "l", "t">>,
   charts |-> [c \in 1..Len(compressions) |->
                 Cell(compressions[c], size, od, combined_rows, all_parsers)]]

NoChart(printed) ==
  [returned |-> "None", printed |-> printed, combined_rows |-> <<>>, all_parsers |-> <<>>,
   compressions |-> <<>>, sizes |-> <<>>, rows |-> <<>>]

\* the outcomes of plot_mean_times: one for each order of equal-keyed sizes.
\* data_dict is the sequence of (key, table) items of the dict
plot_mean_times(data_dict, cache_type) ==
  LET acc == Organize([organized_data |-> <<>>, printed |-> <<>>], data_dict, cache_type)
      od == acc.organized_data
      combined_rows == CombinedRows(od)
      all_parsers == AllParsers(combined_rows) IN
  IF od = <<>>
    THEN {NoChart(Append(acc.printed, [msg |-> "No data to plot for cache_type"]))}
  ELSE IF combined_rows = <<>>
    THEN {NoChart(Append(acc.printed, [msg |-> "No data to plot"]))}
  ELSE
    {[returned |-> "chart", printed |-> acc.printed, combined_rows |-> combined_rows,
      all_parsers |-> all_parsers, compressions |-> compressions, sizes |-> sizes,
      rows |-> [r \in 1..Len(sizes) |->
                  GridRow(sizes[r], compressions, od, combined_rows, all_parsers)]] :
       compressions \in SortedOrders({od[i].cell[1] : i \in 1..Len(od)},
                                     [x \in {od[i].cell[1] : i \in 1..Len(od)} |->
                                        CompressionKey(x)]),
       sizes \in SortedOrders({od[i].cell[2] : i \in 1..Len(od)},
                              [x \in {od[i].cell[2] : i \in 1..Len(od)} |-> size_sort_key(x)])}

(* ------------------------------------------------------------------ *)
(* Dicts of tables plot_mean_times is applied to                       *)
(* ------------------------------------------------------------------ *)
s_warm == <<"w", "a", "r", "m">>

\* two keys of one cell, three compressions, two sizes, a legacy key, a key
\* of the other cache state and a key the parser rejects
GridKeys ==
  {Join(<<s_1m, s_hot, s_raw>>, s_us), Join(<<s_1M, s_hot, s_raw>>, s_us),
   Join(<<s_10m, s_hot, s_gz>>, s_us), Join(<<s_1m, s_hot, s_bgz>>, s_us),
   Join(<<s_hot, s_raw>>, s_us), Join(<<s_1m, s_cold, s_raw>>, s_us),
   Join(<<s_1m, s_warm, s_raw>>, s_us)}

GridKeyLists(max) ==
  {ks \in UNION {[1..n -> GridKeys] : n \in 0..max} :
     \A i, j \in 1..Len(ks) : i # j => ks[i] # ks[j]}

\* an empty table, tables of one command, a table of two
GridTables ==
  {TableOf(<<>>), [columns |-> Schema, rows |-> <<RunRecord("A", 2, JNum(1))>>],
   [columns |-> Schema, rows |-> <<RunRecord("B", 2, JNull)>>],
   [columns |-> Schema, rows |-> <<RunRecord("A", 4, JNull), RunRecord("C", 2, JNum(1))>>]}

DataDicts(max) ==
  UNION {{[i \in 1..Len(ks) |-> [key |-> ks[i], table |-> tb[i]]] :
            tb \in [1..Len(ks) -> GridTables]} : ks \in GridKeyLists(max)}

Views(max) ==
  {[data_dict |-> dd, cache_type |-> c] : dd \in DataDicts(max), c \in CacheTokens}

NoView == [data_dict |-> <<>>, cache_type |-> s_hot]

(* ------------------------------------------------------------------ *)
(* plot_scatter_runs                                                   *)
(* ------------------------------------------------------------------ *)
\* s.replace(old, new) for one-character old and new
Replace(s, old, new) == [i \in 1..Len(s) |-> IF s[i] = old THEN new ELSE s[i]]

IsCased(c) ==
  \E k \in 1..Len(LowerCase) : LowerCase[k] = c \/ UpperCase[k] = c

\* str.title(): a cased character is upper-cased after an uncased one (or at
\* the start) and lower-cased after a cased one
Title(s) ==
  [i \in 1..Len(s) |->
     IF i > 1 /\ IsCased(s[i - 1]) THEN LowerChar(s[i]) ELSE UpperChar(s[i])]

\* lines 669-683: one iteration of the loop over data_dict.items()
ScatterStep(acc, item) ==
  IF item.table.rows = <<>> THEN acc
  ELSE LET key3 == _parse_benchmark_key(item.key) IN
    IF key3 = None THEN acc
    ELSE IF key3[2] # s_hot THEN acc
    ELSE [organized_data |-> Put(acc.organized_data, <<key3[3], key3[1]>>, item),
          all_parsers |-> acc.all_parsers
                            \cup {item.table.rows[i].command : i \in 1..Len(item.table.rows)}]

RECURSIVE ScatterOrganize(_, _)
ScatterOrganize(acc, items) ==
  IF items = <<>> THEN acc
  ELSE ScatterOrganize(ScatterStep(acc, Head(items)), Tail(items))

\* lines 725-733 and 808-816: one row per run of each record
RECURSIVE ExpandedRows(_)
ExpandedRows(rows) ==
  IF rows = <<>> THEN <<>>
  ELSE [k \in 1..Len(Head(rows).times.v) |->
          [command |-> Head(rows).command, run |-> k - 1,
           time |-> Head(rows).times.v[k], mean |-> Head(rows).mean]]
         \o ExpandedRows(Tail(rows))

\* line 703: compression_labels.get(compression, compression)
ScatterLabel(compression) ==
  IF compression = s_raw THEN "Raw"
  ELSE IF compression = s_gz THEN "Gzip"
  ELSE IF compression = s_bgz THEN "Bgzip"
  ELSE compression

\* lines 714-768: the chart of one cell
ScatterCell(compression, size, od, all_parsers) ==
  IF \E i \in 1..Len(od) : od[i].cell = <<compression, size>>
    THEN LET entry == od[CHOOSE i \in 1..Len(od) : od[i].cell = <<compression, size>>] IN
         [mark |-> "circle", title |-> ScatterLabel(compression),
          name |-> entry.value.key,
          data |-> ExpandedRows(entry.value.table.rows), domain |-> all_parsers]
    ELSE [mark |-> "No Data", title |-> ScatterLabel(compression), name |-> <<>>,
          data |-> <<[run |-> 0, time |-> JNum(0)]>>, domain |-> <<>>]

\* lines 710-779: the row of one size
ScatterRow(size, compressions, od, all_parsers) ==
  [label |-> IF size # s_default THEN Upper(size) ELSE <<"D", "e", "f", "a", "u", "l", "t">>,
   charts |-> [c \in 1..Len(compressions) |->
                 ScatterCell(compressions[c], size, od, all_parsers)]]

NoScatter ==
  [returned |-> "None", layout |-> "none", all_parsers |-> <<>>, compressions |-> <<>>,
   sizes |-> <<>>, rows |-> <<>>, charts |-> <<>>]

\* lines 802-838: the chart of every non-empty table of data_dict, whatever
\* its key (file_sizes is None)
RECURSIVE SimpleCharts(_)
SimpleCharts(data_dict) ==
  IF data_dict = <<>> THEN <<>>
  ELSE (IF Head(data_dict).table.rows = <<>> THEN <<>>
        ELSE <<[title |-> Title(Replace(Head(data_dict).key, "_", " ")),
                name |-> Head(data_dict).key,
                data |-> ExpandedRows(Head(data_dict).table.rows)]>>)
         \o SimpleCharts(Tail(data_dict))

\* lines 799-850
_plot_scatter_runs_simple(data_dict) ==
  IF SimpleCharts(data_dict) = <<>> THEN NoScatter
  ELSE [NoScatter EXCEPT !.returned = "chart", !.layout = "simple",
                         !.charts = SimpleCharts(data_dict)]

\* the outcomes of plot_scatter_runs: one for each order of equal-keyed
\* sizes.  data_dict is the sequence of (key, table) items of the dict
plot_scatter_runs(data_dict) ==
  LET acc == ScatterOrganize([organized_data |-> <<>>, all_parsers |-> {}], data_dict)
      od == acc.organized_data
      all_parsers == SelectSeq(Commands, LAMBDA c : JStr(c) \in acc.all_parsers) IN
  IF od = <<>> THEN {_plot_scatter_runs_simple(data_dict)}
  ELSE
    {IF sizes = <<>> THEN _plot_scatter_runs_simple(data_dict)
     ELSE [returned |-> "chart", layout |-> "grid", all_parsers |-> all_parsers,
           compressions |-> compressions, sizes |-> sizes,
           rows |-> [r \in 1..Len(sizes) |->
                       ScatterRow(sizes[r], compressions, od, all_parsers)],
           charts |-> <<>>] :
       compressions \in SortedOrders({od[i].cell[1] : i \in 1..Len(od)},
                                     [x \in {od[i].cell[1] : i \in 1..Len(od)} |->
                                        CompressionKey(x)]),
       sizes \in SortedOrders({od[i].cell[2] : i \in 1..Len(od)},
                              [x \in {od[i].cell[2] : i \in 1..Len(od)} |-> size_sort_key(x)])}

(* ------------------------------------------------------------------ *)
(* plot_test_size_scaling                                              *)
(* ------------------------------------------------------------------ *)
\* lines 1195-1201: the point of one run record
ScalingRow(row, info) ==
  [size_value |-> info.size_value, size_display |-> info.display_str,
   command |-> row.command, mean |-> row.mean,
   stddev |-> IF row.stddev = JNull THEN JNum(0) ELSE row.stddev]

\* variant: the records of the next table also plotted at this size
RECURSIVE ScalingRows_CarryOver(_)
ScalingRows_CarryOver(items) ==
  IF items = <<>> THEN <<>>
  ELSE LET info == extract_size_info(Head(items).key)
           rows == Head(items).table.rows
                     \o (IF Len(items) >= 2 THEN items[2].table.rows ELSE <<>>) IN
       (IF info.ok THEN [i \in 1..Len(rows) |-> ScalingRow(rows[i], info)] ELSE <<>>)
         \o ScalingRows_CarryOver(Tail(items))

\* lines 1185-1201: the points of the matching keys (the key selection of
\* lines 1160-1163 and extract_size_info of lines 1170-1179 are those of
\* plot_throughput, word for word)
RECURSIVE ScalingRows(_)
ScalingRows(items) ==
  IF items = <<>> THEN <<>>
  ELSE LET info == extract_size_info(Head(items).key)
           rows == Head(items).table.rows IN
       (IF info.ok THEN [i \in 1..Len(rows) |-> ScalingRow(rows[i], info)] ELSE <<>>)
         \o ScalingRows(Tail(items))

\* line 1269: filter(command == parser).sort('size_value'); rows of equal
\* size come out in any order
ParserData(scaling_rows, parser) ==
  LET idx == {i \in 1..Len(scaling_rows) : scaling_rows[i].command = JStr(parser)}
      size_of == [i \in idx |->
                    Frac(scaling_rows[i].size_value.num, scaling_rows[i].size_value.den)] IN
  {[k \in 1..Len(order) |-> scaling_rows[order[k]]] : order \in SortedOrders(idx, size_of)}

\* variant: the ratio of the sizes left out of the efficiency
Efficiency_TimeOnly(parser_data) ==
  LET smallest_time == parser_data[1].mean.v
      largest_time == parser_data[Len(parser_data)].mean.v
      smallest_size == parser_data[1].size_value
      largest_size == parser_data[Len(parser_data)].size_value IN
  IF Len(parser_data) >= 2 /\ smallest_time > 0 /\ smallest_size.num > 0
    THEN [computed |-> TRUE,
          time_ratio |-> Frac(largest_time, smallest_time),
          size_ratio |-> Frac(largest_size.num * smallest_size.den,
                              largest_size.den * smallest_size.num),
          scaling_efficiency |-> Frac(largest_time, smallest_time)]
    ELSE [computed |-> FALSE, time_ratio |-> Frac(0, 1), size_ratio |-> Frac(0, 1),
          scaling_efficiency |-> Frac(0, 1)]

\* lines 1276-1287: the scaling ratio of one parser, as fractions
Efficiency(parser_data) ==
  LET smallest_time == parser_data[1].mean.v
      largest_time == parser_data[Len(parser_data)].mean.v
      smallest_size == parser_data[1].size_value
      largest_size == parser_data[Len(parser_data)].size_value IN
  IF Len(parser_data) >= 2 /\ smallest_time > 0 /\ smallest_size.num > 0
    THEN LET size_ratio == Frac(largest_size.num * smallest_size.den,
                                largest_size.den * smallest_size.num) IN
         [computed |-> TRUE,
          time_ratio |-> Frac(largest_time, smallest_time),
          size_ratio |-> size_ratio,
          scaling_efficiency |->
            IF size_ratio.num > 0
              THEN Frac(largest_time * size_ratio.den, smallest_time * size_ratio.num)
              ELSE Frac(0, 1)]
    ELSE [computed |-> FALSE, time_ratio |-> Frac(0, 1), size_ratio |-> Frac(0, 1),
          scaling_efficiency |-> Frac(0, 1)]

\* lines 1268-1287: what is printed for one parser
Analysis(parser, parser_data) ==
  [parser |-> parser, rows |-> parser_data, scaling |-> Efficiency(parser_data)]

NoScaling(printed) ==
  [returned |-> "None", printed |-> printed, scaling_rows |-> <<>>, all_parsers |-> <<>>,
   analysis |-> <<>>]

\* the outcomes of plot_test_size_scaling: one for each order of the rows of
\* equal size. all_data is the sequence of (key, table) items of the dict
plot_test_size_scaling(all_data, cache_type, file_format) ==
  LET matching == SelectSeq(all_data,
                    LAMBDA it : KeyMatches(it.key, it.table, cache_type, file_format))
      scaling_rows == ScalingRows(matching)
      parsers == AllParsers(scaling_rows) IN
  IF matching = <<>> THEN {NoScaling(<<[msg |-> "no results found"]>>)}
  ELSE IF scaling_rows = <<>> THEN {NoScaling(<<[msg |-> "No data to plot"]>>)}
  ELSE
    {[returned |-> "chart", printed |-> <<>>, scaling_rows |-> scaling_rows,
      all_parsers |-> parsers,
      analysis |-> [k \in 1..Len(parsers) |-> Analysis(parsers[k], sorted[k])]] :
       sorted \in {f \in [1..Len(parsers) ->
                            UNION {ParserData(scaling_rows, parsers[k]) : k \in 1..Len(parsers)}] :
                     \A k \in 1..Len(parsers) : f[k] \in ParserData(scaling_rows, parsers[k])}}

(* ------------------------------------------------------------------ *)
(* Dicts of tables plot_test_size_scaling is applied to                *)
(* ------------------------------------------------------------------ *)
s_0m == <<"0", "m">>

\* sizes 1m and 10m, 1M beside 1m, a size that is no number, size 0, a key
\* of the other cache state and a really-cold key
ScalingKeys ==
  {Join(<<s_1m, s_hot, s_raw>>, s_us), Join(<<s_10m, s_hot, s_raw>>, s_us),
   Join(<<s_1M, s_hot, s_raw>>, s_us), Join(<<s_10mb, s_hot, s_raw>>, s_us),
   Join(<<s_0m, s_hot, s_raw>>, s_us), Join(<<s_1m, s_cold, s_raw>>, s_us),
   Join(<<s_1m, s_really_cold, s_raw>>, s_us)}

ScalingKeyLists(max) ==
  {ks \in UNION {[1..n -> ScalingKeys] : n \in 0..max} :
     \A i, j \in 1..Len(ks) : i # j => ks[i] # ks[j]}

ScalingTables ==
  {TableOf(<<>>), [columns |-> Schema, rows |-> <<RunRecord("A", 2, JNum(1))>>],
   [columns |-> Schema, rows |-> <<RunRecord("B", 2, JNull)>>],
   [columns |-> Schema, rows |-> <<RunRecord("A", 0, JNull)>>],
   [columns |-> Schema, rows |-> <<RunRecord("A", 4, JNull), RunRecord("B", 2, JNum(1))>>]}

ScalingDicts(max) ==
  UNION {{[i \in 1..Len(ks) |-> [key |-> ks[i], table |-> tb[i]]] :
            tb \in [1..Len(ks) -> ScalingTables]} : ks \in ScalingKeyLists(max)}

ScalingCalls(max) ==
  {[all_data |-> ad, cache_type |-> c, file_format |-> s_raw] :
     ad \in ScalingDicts(max), c \in CacheTokens}

NoScalingCall == [all_data |-> <<>>, cache_type |-> s_hot, file_format |-> s_raw]

(* ------------------------------------------------------------------ *)
(* plot_really_cold_scaling                                            *)
(* ------------------------------------------------------------------ *)
\* lines 1040-1041
size_order == <<s_10mb, s_100mb, s_1gb, s_4gb>>
size_display == <<"10 MB", "100 MB", "1 GB", "4 GB">>

\* lines 1046-1059: the rows of one size_key, and what is printed
ColdStep(acc, k, really_cold_results) ==
  LET result_key == s_really_cold \o s_us \o size_order[k]
      found == {i \in 1..Len(really_cold_results) : really_cold_results[i].key = result_key} IN
  IF found = {} THEN acc
  ELSE LET df == really_cold_results[CHOOSE i \in found : TRUE].table IN
    IF Len(df.rows) = 0
      THEN [acc EXCEPT !.printed = Append(@, [msg |-> "no successful results", key |-> result_key])]
      ELSE [acc EXCEPT !.scaling_rows = @ \o
              [j \in 1..Len(df.rows) |->
                 [size |-> size_display[k], command |-> df.rows[j].command,
                  mean |-> df.rows[j].mean,
                  stddev |-> IF df.rows[j].stddev = JNull THEN JNum(0) ELSE df.rows[j].stddev]]]

RECURSIVE ColdLoop(_, _, _)
ColdLoop(acc, k, really_cold_results) ==
  IF k > Len(size_order) THEN acc
  ELSE ColdLoop(ColdStep(acc, k, really_cold_results), k + 1, really_cold_results)

\* max(means, key=...) and min(means, key=...): the first row with the
\* largest mean and the first with the smallest
Slowest(size_data) ==
  size_data[CHOOSE i \in 1..Len(size_data) :
              /\ \A j \in 1..Len(size_data) : size_data[j].mean.v <= size_data[i].mean.v
              /\ \A j \in 1..(i - 1) : size_data[j].mean.v < size_data[i].mean.v]
Fastest(size_data) ==
  size_data[CHOOSE i \in 1..Len(size_data) :
              /\ \A j \in 1..Len(size_data) : size_data[j].mean.v >= size_data[i].mean.v
              /\ \A j \in 1..(i - 1) : size_data[j].mean.v > size_data[i].mean.v]

\* lines 1127-1131: the line printed for each parser with a row at this size
ParserLines(size_data, parsers) ==
  LET present == SelectSeq(parsers,
                   LAMBDA p : \E i \in 1..Len(size_data) : size_data[i].command = JStr(p)) IN
  [n \in 1..Len(present) |->
     LET first == size_data[CHOOSE i \in 1..Len(size_data) :
                              /\ size_data[i].command = JStr(present[n])
                              /\ \A j \in 1..(i - 1) : size_data[j].command # JStr(present[n])] IN
     [msg |-> "parser", parser |-> present[n], mean |-> first.mean, std |-> first.stddev]]

\* lines 1123-1141: the analysis of one size
SpeedupStep(acc, size, parsers) ==
  LET size_data == SelectSeq(acc.scaling_rows, LAMBDA r : r.size = size) IN
  IF acc.raised # NoException \/ Len(size_data) = 0 THEN acc
  ELSE LET shown == [acc EXCEPT !.printed = (Append(@, [msg |-> "size", size |-> size]))
                                               \o ParserLines(size_data, parsers)] IN
    IF Len(size_data) < 2 THEN shown
    ELSE LET slowest_time == Slowest(size_data).mean.v
             fastest_time == Fastest(size_data).mean.v IN
      IF ~(slowest_time > 0) THEN shown
      ELSE IF fastest_time = 0 THEN [shown EXCEPT !.raised = "ZeroDivisionError"]
      ELSE [shown EXCEPT !.printed = Append(@,
              [msg |-> "speedup", speedup |-> Frac(slowest_time, fastest_time),
               fastest_parser |-> Fastest(size_data).command,
               slowest_parser |-> Slowest(size_data).command])]

RECURSIVE SpeedupLoop(_, _, _)
SpeedupLoop(acc, k, parsers) ==
  IF k > Len(size_display) THEN acc
  ELSE SpeedupLoop(SpeedupStep(acc, size_display[k], parsers), k + 1, parsers)

NoColdScaling(printed) ==
  [returned |-> "None", raised |-> NoException, printed |-> printed, scaling_rows |-> <<>>]

\* all_data is the sequence of (key, table) items of the dict
plot_really_cold_scaling(all_data) ==
  LET really_cold_results == SelectSeq(all_data, LAMBDA it : Contains(it.key, s_really_cold))
      acc == ColdLoop([scaling_rows |-> <<>>, printed |-> <<>>], 1, really_cold_results) IN
  IF really_cold_results = <<>>
    THEN NoColdScaling(<<[msg |-> "No really-cold cache results found."]>>)
  ELSE IF acc.scaling_rows = <<>>
    THEN NoColdScaling(Append(acc.printed, [msg |-> "No really-cold data to plot"]))
  ELSE LET out == SpeedupLoop([scaling_rows |-> acc.scaling_rows, raised |-> NoException,
                               printed |-> Append(acc.printed, [msg |-> "analysis"])],
                              1, AllParsers(acc.scaling_rows)) IN
    [returned |-> IF out.raised = NoException THEN "chart" ELSE "None",
     raised |-> out.raised, printed |-> out.printed, scaling_rows |-> acc.scaling_rows]

(* ------------------------------------------------------------------ *)
(* Dicts of tables plot_really_cold_scaling is applied to              *)
(* ------------------------------------------------------------------ *)
\* two sizes of the really-cold series, a really-cold key of the other
\* form and a hot key
ColdKeys ==
  {s_really_cold \o s_us \o s_10mb, s_really_cold \o s_us \o s_1gb,
   Join(<<s_1m, s_really_cold, s_raw>>, s_us), Join(<<s_1m, s_hot, s_raw>>, s_us)}

ColdKeyLists(max) ==
  {ks \in UNION {[1..n -> ColdKeys] : n \in 0..max} :
     \A i, j \in 1..Len(ks) : i # j => ks[i] # ks[j]}

\* the dict: the first key holds any table, the later keys one of OtherTables
ColdDicts(tables, rows) ==
  UNION {{[i \in 1..Len(ks) |-> [key |-> ks[i], table |-> IF i = 1 THEN t1 ELSE tb[i]]] :
            t1 \in Tables(rows), tb \in [2..Len(ks) -> OtherTables]}
           : ks \in ColdKeyLists(tables)}

(* ------------------------------------------------------------------ *)
(* compare_raw_vs_gzipped                                              *)
(* ------------------------------------------------------------------ *)
\* the characters of the keys in code point order
CharOrder == <<".", "0", "1", "2", "3", "4", "5", "6", "7", "8", "9">> \o UpperCase
               \o <<"_">> \o LowerCase
CharRank(c) == CHOOSE i \in 1..Len(CharOrder) : CharOrder[i] = c

\* a < b on str
RECURSIVE StrLess(_, _)
StrLess(a, b) ==
  IF b = <<>> THEN FALSE
  ELSE IF a = <<>> THEN TRUE
  ELSE IF Head(a) = Head(b) THEN StrLess(Tail(a), Tail(b))
  ELSE CharRank(Head(a)) < CharRank(Head(b))

\* sorted(set(...)) on str
SortedStrings(S) ==
  CHOOSE sq \in [1..Cardinality(S) -> S] :
    \A i, j \in 1..Cardinality(S) : (i < j) => StrLess(sq[i], sq[j])

\* lines 491-492: the two comprehensions over the hot keys
IsRawKey(it) == Contains(it.key, s_raw) /\ Len(it.table.rows) > 0
IsGzKey(it) == Contains(it.key, s_gz) /\ ~Contains(it.key, s_bgz) /\ Len(it.table.rows) > 0

\* lines 502-505 and 510-513: the rows of one table with file_type and size
RECURSIVE TypedRows(_, _)
TypedRows(items, file_type) ==
  IF items = <<>> THEN <<>>
  ELSE LET key == Head(items).key
           rows == Head(items).table.rows
           size == IF Contains(key, s_us) THEN Split(key, s_us)[1] ELSE s_default IN
       [j \in 1..Len(rows) |->
          [command |-> rows[j].command, mean |-> rows[j].mean, stddev |-> rows[j].stddev,
           file_type |-> file_type, size |-> size]]
         \o TypedRows(Tail(items), file_type)

\* lines 566-582: one parser at one size
RatioStep(acc, size_data, parser) ==
  LET raw_data == SelectSeq(size_data,
                    LAMBDA r : r.command = JStr(parser) /\ r.file_type = "Raw FASTQ")
      gz_data == SelectSeq(size_data,
                   LAMBDA r : r.command = JStr(parser) /\ r.file_type = "Gzipped FASTQ") IN
  IF acc.raised # NoException THEN acc
  ELSE IF ~(Len(raw_data) > 0 /\ Len(gz_data) > 0) THEN acc
  ELSE LET raw_time == raw_data[1].mean.v
           gz_time == gz_data[1].mean.v IN
    IF raw_time = 0 THEN [acc EXCEPT !.raised = "ZeroDivisionError"]
    ELSE [acc EXCEPT !.printed = Append(@,
            [msg |-> "ratio", parser |-> parser, raw_time |-> raw_time, gz_time |-> gz_time,
             speedup |-> Frac(gz_time, raw_time)])]

RECURSIVE ParserLoop(_, _, _)
ParserLoop(acc, size_data, parsers) ==
  IF parsers = <<>> THEN acc
  ELSE ParserLoop(RatioStep(acc, size_data, Head(parsers)), size_data, Tail(parsers))

\* lines 560-582: the loop over the sizes
RECURSIVE SizeLoop(_, _, _, _)
SizeLoop(acc, sizes, parsers, combined_rows) ==
  IF sizes = <<>> \/ acc.raised # NoException THEN acc
  ELSE LET size == Head(sizes)
           headed == IF size # s_default
                       THEN [acc EXCEPT !.printed = Append(@, [msg |-> "size", size |-> size])]
                       ELSE acc IN
       SizeLoop(ParserLoop(headed, SelectSeq(combined_rows, LAMBDA r : r.size = size), parsers),
                Tail(sizes), parsers, combined_rows)

NoComparison(printed) ==
  [returned |-> "None", raised |-> NoException, printed |-> printed, combined_rows |-> <<>>]

\* all_data is the sequence of (key, table) items of the dict
compare_raw_vs_gzipped(all_data) ==
  LET hot_results == SelectSeq(all_data, LAMBDA it : Contains(it.key, s_hot))
      raw_keys == SelectSeq(hot_results, IsRawKey)
      gz_keys == SelectSeq(hot_results, IsGzKey)
      combined_rows == TypedRows(raw_keys, "Raw FASTQ") \o TypedRows(gz_keys, "Gzipped FASTQ") IN
  IF raw_keys = <<>> \/ gz_keys = <<>>
    THEN NoComparison(<<[msg |-> "Need both hot_raw and hot_gz results"],
                        [msg |-> "Found", raw |-> [i \in 1..Len(raw_keys) |-> raw_keys[i].key],
                         gz |-> [i \in 1..Len(gz_keys) |-> gz_keys[i].key]]>>)
  ELSE LET out == SizeLoop([raised |-> NoException, printed |-> <<[msg |-> "analysis"]>>],
                           SortedStrings({combined_rows[i].size : i \in 1..Len(combined_rows)}),
                           AllParsers(combined_rows), combined_rows) IN
    [returned |-> IF out.raised = NoException THEN "chart" ELSE "None",
     raised |-> out.raised, printed |-> out.printed, combined_rows |-> combined_rows]

(* ------------------------------------------------------------------ *)
(* Dicts of tables compare_raw_vs_gzipped is applied to                *)
(* ------------------------------------------------------------------ *)
\* raw and gz at one size, gz at a second size, a bgz key and a cold key
CompareKeys ==
  {Join(<<s_1m, s_hot, s_raw>>, s_us), Join(<<s_1m, s_hot, s_gz>>, s_us),
   Join(<<s_10m, s_hot, s_gz>>, s_us), Join(<<s_1m, s_hot, s_bgz>>, s_us),
   Join(<<s_1m, s_cold, s_raw>>, s_us)}

CompareKeyLists(max) ==
  {ks \in UNION {[1..n -> CompareKeys] : n \in 0..max} :
     \A i, j \in 1..Len(ks) : i # j => ks[i] # ks[j]}

\* the dict: the first key holds any table, the later keys one of OtherTables
CompareDicts(tables, rows) ==
  UNION {{[i \in 1..Len(ks) |-> [key |-> ks[i], table |-> IF i = 1 THEN t1 ELSE tb[i]]] :
            t1 \in Tables(rows), tb \in [2..Len(ks) -> OtherTables]}
           : ks \in CompareKeyLists(tables)}

(* ------------------------------------------------------------------ *)
(* Size labels the rows of a grid are sorted from                      *)
(* ------------------------------------------------------------------ *)
s_01m == <<"0", ".", "1", "m">>
s_1000m == <<"1", "0", "0", "0", "m">>
s_xl == <<"x", "l">>

SizeLabels == {s_default, s_01m, s_1m, s_1M, s_10m, s_1000m, s_10mb, s_xl}

\* the sizes found in organized_data: any set of up to MaxSizes labels
SizeSets(max) == {S \in SUBSET SizeLabels : Cardinality(S) <= max}

(* ------------------------------------------------------------------ *)
(* Compressions the columns of a grid are sorted from                  *)
(* ------------------------------------------------------------------ *)
s_xz == <<"x", "z">>
s_zst == <<"z", "s", "t">>
s_bz2 == <<"b", "z", "2">>
s_GZ == <<"G", "Z">>

CompressionLabels == {s_raw, s_gz, s_bgz, s_xz, s_zst, s_bz2, s_GZ}

\* the compressions found in organized_data: any set of up to max labels
CompressionSets(max) == {S \in SUBSET CompressionLabels : Cardinality(S) <= max}

(* ------------------------------------------------------------------ *)
(* Dicts whose rows tell which key they came from                      *)
(* ------------------------------------------------------------------ *)
s_Really_cold == <<"R", "e", "a", "l", "l", "y", "_", "c", "o", "l", "d">>
s_HOT == <<"H", "O", "T">>

\* keys of the documented form, a really-cold key, keys in other letter
\* case, a key with a fourth token, a key with a token before the cache
\* state, and a legacy key
MarkedKeys ==
  <<Join(<<s_1m, s_hot, s_raw>>, s_us), Join(<<s_1m, s_cold, s_raw>>, s_us),
    Join(<<s_1m, s_really_cold, s_raw>>, s_us), Join(<<s_1m, s_Really_cold, s_raw>>, s_us),
    Join(<<s_1m, s_HOT, s_raw>>, s_us), Join(<<s_1m, s_hot, s_gz, s_raw>>, s_us),
    Join(<<s_1m, s_bench, s_hot, s_raw>>, s_us), Join(<<s_hot, s_raw>>, s_us),
    Join(<<s_1M, s_hot, s_gz>>, s_us)>>

\* the table of the k-th key: one record whose mean is k
MarkedTable(k) == [columns |-> Schema, rows |-> <<RunRecord("A", k, JNum(1))>>]

\* dicts of up to max distinct keys, each with its marked table or an empty one
MarkedDicts(max) ==
  UNION {{[i \in 1..Len(ks) |->
             [key |-> MarkedKeys[ks[i]],
              table |-> IF i \in full THEN MarkedTable(ks[i]) ELSE TableOf(<<>>)]] :
            full \in SUBSET (1..Len(ks))} :
           ks \in {sq \in UNION {[1..n -> 1..Len(MarkedKeys)] : n \in 0..max} :
                     \A i, j \in 1..Len(sq) : i # j => sq[i] # sq[j]}}

SeriesQueries == {<<c, f>> : c \in {s_hot, s_cold}, f \in {s_raw, s_gz}}

\* the result file of a key, in the directory of size 1m
MarkedPath(key) == <<s_bench, s_1m, key \o s_json>>

ThroughputCallOf(ad, q) ==
  [all_data |-> ad,
   available_results |-> [k \in {ad[i].key : i \in 1..Len(ad)} |-> MarkedPath(k)],
   cache_type |-> q[1], file_format |-> q[2], disk |-> FullDisk]

ScalingCallOf(ad, q) == [all_data |-> ad, cache_type |-> q[1], file_format |-> q[2]]

(* ------------------------------------------------------------------ *)
(* Specifications                                                      *)
(* ------------------------------------------------------------------ *)
NotRun ==
  /\ pc = "idle"
  /\ parsed = None
  /\ split_used = FALSE
  /\ loaded = Raise(NoException, <<>>)
  /\ plotted = [returned |-> "None", rows |-> <<>>, printed |-> <<>>]
  /\ sized = [size |-> Unknown, file_path |-> None]
  /\ grid = NoChart(<<>>)
  /\ scaled = NoScaling(<<>>)
  /\ sorted_sizes = <<>>
  /\ scattered = NoScatter
  /\ columns = <<>>
  /\ cold_scaled = NoColdScaling(<<>>)
  /\ compared = NoComparison(<<>>)

\* a benchmark name about to be parsed
InitKey ==
  /\ NotRun
  /\ name \in Names(MaxTokens)
  /\ file = NoFile
  /\ call = NoCall
  /\ result_path = NoPath
  /\ test_data = NoTestData
  /\ view = NoView
  /\ scaling_call = NoScalingCall
  /\ size_labels = {}
  /\ scatter_dict = <<>>
  /\ compression_set = {}
  /\ cold_data = <<>>
  /\ compare_data = <<>>

\* a result file about to be loaded
InitLoad ==
  /\ NotRun
  /\ name = <<>>
  /\ file \in Files(MaxResults)
  /\ call = NoCall
  /\ result_path = NoPath
  /\ test_data = NoTestData
  /\ view = NoView
  /\ scaling_call = NoScalingCall
  /\ size_labels = {}
  /\ scatter_dict = <<>>
  /\ compression_set = {}
  /\ cold_data = <<>>
  /\ compare_data = <<>>

\* loaded tables about to be plotted
InitThroughput ==
  /\ NotRun
  /\ name = <<>>
  /\ file = NoFile
  /\ call \in Calls(MaxTables, MaxRows)
  /\ result_path = NoPath
  /\ test_data = NoTestData
  /\ view = NoView
  /\ scaling_call = NoScalingCall
  /\ size_labels = {}
  /\ scatter_dict = <<>>
  /\ compression_set = {}
  /\ cold_data = <<>>
  /\ compare_data = <<>>

\* a result path whose input size is about to be looked up
InitFileSize ==
  /\ NotRun
  /\ name = <<>>
  /\ file = NoFile
  /\ call = NoCall
  /\ result_path \in Paths(MaxDepth)
  /\ test_data \in TestDatas
  /\ view = NoView
  /\ scaling_call = NoScalingCall
  /\ size_labels = {}
  /\ scatter_dict = <<>>
  /\ compression_set = {}
  /\ cold_data = <<>>
  /\ compare_data = <<>>

\* tables about to be laid out as a grid of mean times
InitMeanTimes ==
  /\ NotRun
  /\ name = <<>>
  /\ file = NoFile
  /\ call = NoCall
  /\ result_path = NoPath
  /\ test_data = NoTestData
  /\ view \in Views(MaxTables)
  /\ scaling_call = NoScalingCall
  /\ size_labels = {}
  /\ scatter_dict = <<>>
  /\ compression_set = {}
  /\ cold_data = <<>>
  /\ compare_data = <<>>

\* tables about to be drawn as a grid of run times
InitScatter ==
  /\ NotRun
  /\ name = <<>>
  /\ file = NoFile
  /\ call = NoCall
  /\ result_path = NoPath
  /\ test_data = NoTestData
  /\ view = NoView
  /\ scaling_call = NoScalingCall
  /\ size_labels = {}
  /\ scatter_dict \in DataDicts(MaxTables)
  /\ compression_set = {}
  /\ cold_data = <<>>
  /\ compare_data = <<>>

\* the compressions of a grid about to be put in column order
InitColumns ==
  /\ NotRun
  /\ name = <<>>
  /\ file = NoFile
  /\ call = NoCall
  /\ result_path = NoPath
  /\ test_data = NoTestData
  /\ view = NoView
  /\ scaling_call = NoScalingCall
  /\ size_labels = {}
  /\ scatter_dict = <<>>
  /\ compression_set \in CompressionSets(MaxColumns)
  /\ cold_data = <<>>
  /\ compare_data = <<>>

\* marked tables about to be plotted as a throughput or a scaling series
InitSeries ==
  /\ NotRun
  /\ name = <<>>
  /\ file = NoFile
  /\ result_path = NoPath
  /\ test_data = NoTestData
  /\ view = NoView
  /\ size_labels = {}
  /\ scatter_dict = <<>>
  /\ compression_set = {}
  /\ cold_data = <<>>
  /\ compare_data = <<>>
  /\ \E ad \in MarkedDicts(MaxTables), q \in SeriesQueries :
       \/ call = ThroughputCallOf(ad, q) /\ scaling_call = NoScalingCall
       \/ call = NoCall /\ scaling_call = ScalingCallOf(ad, q)

\* tables about to be plotted as the really-cold series
InitReallyCold ==
  /\ NotRun
  /\ name = <<>>
  /\ file = NoFile
  /\ call = NoCall
  /\ result_path = NoPath
  /\ test_data = NoTestData
  /\ view = NoView
  /\ scaling_call = NoScalingCall
  /\ size_labels = {}
  /\ scatter_dict = <<>>
  /\ compression_set = {}
  /\ cold_data \in ColdDicts(MaxTables, MaxRows)
  /\ compare_data = <<>>

\* hot raw and gz tables about to be compared
InitCompare ==
  /\ NotRun
  /\ name = <<>>
  /\ file = NoFile
  /\ call = NoCall
  /\ result_path = NoPath
  /\ test_data = NoTestData
  /\ view = NoView
  /\ scaling_call = NoScalingCall
  /\ size_labels = {}
  /\ scatter_dict = <<>>
  /\ compression_set = {}
  /\ cold_data = <<>>
  /\ compare_data \in CompareDicts(MaxTables, MaxRows)

\* tables about to be plotted as a scaling series
InitScaling ==
  /\ NotRun
  /\ name = <<>>
  /\ file = NoFile
  /\ call = NoCall
  /\ result_path = NoPath
  /\ test_data = NoTestData
  /\ view = NoView
  /\ scaling_call \in ScalingCalls(MaxTables)
  /\ size_labels = {}
  /\ scatter_dict = <<>>
  /\ compression_set = {}
  /\ cold_data = <<>>
  /\ compare_data = <<>>

\* size labels about to be sorted into the rows of a grid
InitSizes ==
  /\ NotRun
  /\ name = <<>>
  /\ file = NoFile
  /\ call = NoCall
  /\ result_path = NoPath
  /\ test_data = NoTestData
  /\ view = NoView
  /\ scaling_call = NoScalingCall
  /\ size_labels \in SizeSets(MaxSizes)
  /\ scatter_dict = <<>>
  /\ compression_set = {}
  /\ cold_data = <<>>
  /\ compare_data = <<>>

ParseKey ==
  /\ pc = "idle"
  /\ parsed' = _parse_benchmark_key(name)
  /\ split_used' = ~IsReallyCold(name)
  /\ pc' = "parsed"
  /\ UNCHANGED <<name, file, loaded, call, plotted, result_path, test_data, sized, view, grid, scaling_call, scaled, size_labels, sorted_sizes, scatter_dict, scattered, compression_set, columns, cold_data, cold_scaled, compare_data, compared>>

ParseData ==
  /\ pc = "idle"
  /\ loaded' = parse_benchmark_data(file)
  /\ pc' = "loaded"
  /\ UNCHANGED <<name, parsed, split_used, file, call, plotted, result_path, test_data, sized, view, grid, scaling_call, scaled, size_labels, sorted_sizes, scatter_dict, scattered, compression_set, columns, cold_data, cold_scaled, compare_data, compared>>

PlotThroughput ==
  /\ pc = "idle"
  /\ plotted' = plot_throughput(call.all_data, call.available_results,
                                call.cache_type, call.file_format, call.disk)
  /\ pc' = "plotted"
  /\ UNCHANGED <<name, parsed, split_used, file, loaded, call, result_path, test_data, sized, view, grid, scaling_call, scaled, size_labels, sorted_sizes, scatter_dict, scattered, compression_set, columns, cold_data, cold_scaled, compare_data, compared>>

ResolveSize ==
  /\ pc = "idle"
  /\ sized' = [size |-> get_file_size_bytes(result_path, test_data),
               file_path |-> FileSizeBody(result_path, test_data).file_path]
  /\ pc' = "sized"
  /\ UNCHANGED <<name, parsed, split_used, file, loaded, call, plotted, result_path, test_data, view, grid, scaling_call, scaled, size_labels, sorted_sizes, scatter_dict, scattered, compression_set, columns, cold_data, cold_scaled, compare_data, compared>>

PlotMeanTimes ==
  /\ pc = "idle"
  /\ grid' \in plot_mean_times(view.data_dict, view.cache_type)
  /\ pc' = "gridded"
  /\ UNCHANGED <<name, parsed, split_used, file, loaded, call, plotted, result_path, test_data,
                 sized, view, scaling_call, scaled, size_labels, sorted_sizes, scatter_dict, scattered, compression_set, columns, cold_data, cold_scaled, compare_data, compared>>

PlotTestSizeScaling ==
  /\ pc = "idle"
  /\ scaled' \in plot_test_size_scaling(scaling_call.all_data, scaling_call.cache_type,
                                        scaling_call.file_format)
  /\ pc' = "scaled"
  /\ UNCHANGED <<name, parsed, split_used, file, loaded, call, plotted, result_path, test_data,
                 sized, view, grid, scaling_call, size_labels, sorted_sizes, scatter_dict, scattered, compression_set, columns, cold_data, cold_scaled, compare_data, compared>>

\* line 276 (and line 702): sizes = sorted(set(...), key=size_sort_key)
SortSizes ==
  /\ pc = "idle"
  /\ sorted_sizes' \in SortedOrders(size_labels, [x \in size_labels |-> size_sort_key(x)])
  /\ pc' = "sorted"
  /\ UNCHANGED <<name, parsed, split_used, file, loaded, call, plotted, result_path, test_data,
                 sized, view, grid, scaling_call, scaled, size_labels, scatter_dict, scattered, compression_set, columns, cold_data, cold_scaled, compare_data, compared>>

\* plot_scatter_runs(data_dict) with file_sizes left at None
PlotScatterRuns ==
  /\ pc = "idle"
  /\ scattered' \in plot_scatter_runs(scatter_dict)
  /\ pc' = "scattered"
  /\ UNCHANGED <<name, parsed, split_used, file, loaded, call, plotted, result_path, test_data,
                 sized, view, grid, scaling_call, scaled, size_labels, sorted_sizes, scatter_dict, compression_set, columns, cold_data, cold_scaled, compare_data, compared>>

\* lines 264-265 (and 690-691): compressions = sorted(set(...), key=...)
SortColumns ==
  /\ pc = "idle"
  /\ columns' \in SortedOrders(compression_set,
                               [x \in compression_set |-> CompressionKey(x)])
  /\ pc' = "ordered"
  /\ UNCHANGED <<name, parsed, split_used, file, loaded, call, plotted, result_path, test_data,
                 sized, view, grid, scaling_call, scaled, size_labels, sorted_sizes,
                 scatter_dict, scattered, compression_set, cold_data, cold_scaled, compare_data, compared>>

PlotReallyColdScaling ==
  /\ pc = "idle"
  /\ cold_scaled' = plot_really_cold_scaling(cold_data)
  /\ pc' = "cold_scaled"
  /\ UNCHANGED <<name, parsed, split_used, file, loaded, call, plotted, result_path, test_data,
                 sized, view, grid, scaling_call, scaled, size_labels, sorted_sizes,
                 scatter_dict, scattered, compression_set, columns, cold_data, compare_data, compared>>

CompareRawVsGzipped ==
  /\ pc = "idle"
  /\ compared' = compare_raw_vs_gzipped(compare_data)
  /\ pc' = "compared"
  /\ UNCHANGED <<name, parsed, split_used, file, loaded, call, plotted, result_path, test_data,
                 sized, view, grid, scaling_call, scaled, size_labels, sorted_sizes,
                 scatter_dict, scattered, compression_set, columns, cold_data, cold_scaled,
                 compare_data>>

NextKey == ParseKey

SpecKey == InitKey /\ [][NextKey]_vars

NextFileSize == ResolveSize

SpecFileSize == InitFileSize /\ [][NextFileSize]_vars

NextMeanTimes == PlotMeanTimes

SpecMeanTimes == InitMeanTimes /\ [][NextMeanTimes]_vars

NextScaling == PlotTestSizeScaling

SpecScaling == InitScaling /\ [][NextScaling]_vars

NextSizes == SortSizes

SpecSizes == InitSizes /\ [][NextSizes]_vars

NextScatter == PlotScatterRuns

SpecScatter == InitScatter /\ [][NextScatter]_vars

NextColumns == SortColumns

SpecColumns == InitColumns /\ [][NextColumns]_vars

NextSeries == PlotThroughput \/ PlotTestSizeScaling

SpecSeries == InitSeries /\ [][NextSeries]_vars

NextReallyCold == PlotReallyColdScaling

SpecReallyCold == InitReallyCold /\ [][NextReallyCold]_vars

NextCompare == CompareRawVsGzipped

SpecCompare == InitCompare /\ [][NextCompare]_vars

NextLoad == ParseData

SpecLoad == InitLoad /\ [][NextLoad]_vars

NextThroughput == PlotThroughput

SpecThroughput == InitThroughput /\ [][NextThroughput]_vars

(* ------------------------------------------------------------------ *)
(* Properties of the key parser                                        *)
(* ------------------------------------------------------------------ *)
\* the underscore-separated tokens of the lower-cased name
LowerTokens == Split(Lower(name), s_us)

\* text before / after the first "_really_cold_" of the lower-cased name
InfixAt == Find(Lower(name), s_really_cold_infix)
BeforeInfix == SubSeq(Lower(name), 1, InfixAt)
AfterInfix == SubSeq(Lower(name), InfixAt + Len(s_really_cold_infix) + 1, Len(name))

\* C4 as stated: a name size_cache_compression (cache hot/cold, compression
\* raw/gz/bgz) parses to exactly (size, cache, compression), for any size.
C4_AsStated ==
  pc = "parsed" =>
    \A cache \in CacheTokens, comp \in CompressionTokens :
      LET suffix == s_us \o cache \o s_us \o comp IN
      (EndsWith(name, suffix) /\ Len(name) > Len(suffix)) =>
        (parsed = <<SubSeq(name, 1, Len(name) - Len(suffix)), cache, comp>>)

\* C4 amended: for a name size_cache_compression whose size has no
\* underscore and which does not contain really_cold (ignoring case), the
\* parser returns (size lower-cased, cache, compression).
C4_ThreePartLowercased ==
  pc = "parsed" =>
    \A cache \in CacheTokens, comp \in CompressionTokens :
      LET suffix == s_us \o cache \o s_us \o comp
          size == SubSeq(name, 1, Len(name) - Len(suffix)) IN
      (/\ EndsWith(name, suffix)
       /\ ~Contains(size, s_us)
       /\ ~Contains(Lower(name), s_really_cold))
        => (parsed = <<Lower(size), cache, comp>>)

C4_Witness ==
  /\ pc = "parsed"
  /\ name = Join(<<s_1M, s_cold, s_bgz>>, s_us)
  /\ parsed = <<s_1m, s_cold, s_bgz>>

\* C5 as stated: a name containing _really_cold_ whose last token is a
\* compression token parses to a really_cold key, without the generic split.
C5_AsStated ==
  pc = "parsed" =>
    \A comp \in CompressionTokens :
      (Contains(name, s_really_cold_infix) /\ EndsWith(name, s_us \o comp)) =>
        (/\ parsed # None
         /\ parsed[2] = s_really_cold
         /\ ~split_used)

\* C5 amended: when (ignoring case) the text after the first _really_cold_
\* of the name is exactly raw, gz or bgz, the parser returns
\* (text before the infix, really_cold, compression); and no name
\* containing really_cold ever goes through the generic underscore split.
C5_ReallyColdInfix ==
  pc = "parsed" =>
    /\ ((InfixAt # -1 /\ AfterInfix \in CompressionTokens) =>
          parsed = <<BeforeInfix, s_really_cold, AfterInfix>>)
    /\ (Contains(Lower(name), s_really_cold) => ~split_used)

C5_Witness ==
  /\ pc = "parsed"
  /\ name = Join(<<s_1M, s_Really_Cold, s_bgz>>, s_us)
  /\ parsed = <<s_1m, s_really_cold, s_bgz>>
  /\ ~split_used

\* the 3-part grammar (three or more tokens) and the legacy 2-part grammar
MatchesThreePart ==
  Len(LowerTokens) >= 3 /\ LowerTokens[2] \in CacheTokens /\ LowerTokens[3] \in CompressionTokens
MatchesLegacy ==
  Len(LowerTokens) = 2 /\ LowerTokens[1] \in CacheTokens /\ LowerTokens[2] \in CompressionTokens

\* C6 as stated: a name with a second token other than hot/cold or a third
\* token other than raw/gz/bgz, and any name matching neither grammar,
\* parses to None.
C6_AsStated ==
  pc = "parsed" => ((~MatchesThreePart /\ ~MatchesLegacy) => parsed = None)

\* C6 amended: a name that does not contain really_cold (ignoring case) and
\* matches neither the 3-part nor the legacy 2-part grammar parses to None;
\* a name containing really_cold is decided by the really_cold rule alone.
C6_InvalidRejected ==
  pc = "parsed" =>
    ((/\ ~Contains(Lower(name), s_really_cold)
      /\ ~MatchesThreePart
      /\ ~MatchesLegacy) => parsed = None)

C6_Witness ==
  /\ pc = "parsed"
  /\ name = Join(<<s_1m, s_10mb, s_raw>>, s_us)
  /\ parsed = None

\* C7: a legacy name cache_compression parses to ("default", cache, compression).
C7_LegacyDefault ==
  pc = "parsed" =>
    \A cache \in CacheTokens, comp \in CompressionTokens :
      (name = cache \o s_us \o comp) => (parsed = <<s_default, cache, comp>>)

C7_Witness ==
  /\ pc = "parsed"
  /\ name = s_cold \o s_us \o s_gz
  /\ parsed = <<s_default, s_cold, s_gz>>

\* C8: the result for a name equals the result for the lower-cased name.
C8_CaseInsensitive ==
  pc = "parsed" => parsed = _parse_benchmark_key(Lower(name))

C8_Witness ==
  /\ pc = "parsed"
  /\ name = Join(<<s_1M, s_Really_Cold, s_raw>>, s_us)
  /\ name # Lower(name)
  /\ parsed = <<s_1m, s_really_cold, s_raw>>

\* C9 as stated: a key really_cold_<size> parses to a really_cold key.
C9_AsStated ==
  pc = "parsed" =>
    ((MatchAt(name, s_really_cold \o s_us, 0) /\ Len(name) > Len(s_really_cold) + 1) =>
       (parsed # None /\ parsed[2] = s_really_cold))

\* C9 amended: a key really_cold_<size> whose size has no underscore
\* (really_cold_10mb) parses to None; the really-cold form the parser
\* accepts is <size>_really_cold_<compression>.
C9_ReallyColdSizeInvalid ==
  pc = "parsed" =>
    LET prefix == s_really_cold \o s_us IN
    (/\ MatchAt(name, prefix, 0)
     /\ ~Contains(SubSeq(name, Len(prefix) + 1, Len(name)), s_us))
      => (parsed = None)

C9_Witness ==
  /\ pc = "parsed"
  /\ name = s_really_cold \o s_us \o s_10mb
  /\ parsed = None

(* ------------------------------------------------------------------ *)
(* Properties of the result loader                                     *)
(* ------------------------------------------------------------------ *)
\* the results list of the loaded document, when it has one
FileEntries ==
  IF /\ file.access = "ok" /\ file.text = "json" /\ file.doc.t = "obj"
     /\ "results" \in DOMAIN file.doc.v /\ file.doc.v["results"].t = "list"
    THEN file.doc.v["results"].v
    ELSE <<>>

\* an entry whose exit codes (when present) are all zero
ExitCodesAllZero(e) ==
  "exit_codes" \in DOMAIN e.v =>
     \A k \in 1..Len(e.v["exit_codes"].v) : e.v["exit_codes"].v[k] = JNum(0)

\* an entry with a mean that is present and not null
HasMean(e) == "mean" \in DOMAIN e.v /\ e.v["mean"] # JNull

\* C1: every row of the returned table comes from a results entry whose exit
\* codes, when present, are all zero and whose mean is present and non-null.
C1_RowsOnlyFromSuccessfulEntries ==
  (pc = "loaded" /\ loaded.raised = NoException) =>
    \A i \in 1..Len(loaded.table.rows) :
      \E j \in 1..Len(FileEntries) :
        LET e == FileEntries[j] IN
        /\ e.t = "obj"
        /\ ExitCodesAllZero(e)
        /\ HasMean(e)
        /\ "command" \in DOMAIN e.v
        /\ loaded.table.rows[i].command = e.v["command"]
        /\ loaded.table.rows[i].mean = e.v["mean"]

C1_Witness ==
  /\ pc = "loaded"
  /\ loaded.raised = NoException
  /\ Len(FileEntries) = 2
  /\ FileEntries[1] = EntryOf(JStr("A"), JNum(2), JList(<<JNum(0), JNum(1)>>), {})
  /\ FileEntries[2] = EntryOf(JStr("B"), JNum(2), JList(<<JNum(0), JNum(0)>>), {})
  /\ Len(loaded.table.rows) = 1
  /\ loaded.table.rows[1].command = JStr("B")

\* a file that is missing or unreadable, is not valid JSON, or has no results list
Malformed ==
  \/ file.access # "ok"
  \/ file.text # "json"
  \/ file.doc.t # "obj"
  \/ "results" \notin DOMAIN file.doc.v
  \/ file.doc.v["results"].t # "list"

\* C2: parse_benchmark_data raises for no input file; for a malformed file it
\* returns an empty table and prints a warning.
C2_NeverRaises ==
  pc = "loaded" =>
    /\ loaded.raised = NoException
    /\ Malformed => (loaded.table.rows = <<>> /\ loaded.printed # <<>>)

\* C3: a syntactically broken or empty document yields an empty table with
\* the columns command, mean, stddev, median, min, max, times and one
\* printed warning, and no exception.
C3_BrokenJsonGivesEmptyTable ==
  (pc = "loaded" /\ file.access = "ok" /\ file.text \in {"broken", "empty"}) =>
    /\ loaded.raised = NoException
    /\ loaded.table.rows = <<>>
    /\ loaded.table.columns = <<"command", "mean", "stddev", "median", "min", "max", "times">>
    /\ Len(loaded.printed) = 1
    /\ loaded.printed[1].msg = "invalid or empty JSON"

C3_Witness ==
  /\ pc = "loaded"
  /\ file.access = "ok"
  /\ file.text = "broken"
  /\ loaded.raised = NoException
  /\ loaded.table.rows = <<>>
  /\ Len(loaded.table.columns) = 7

(* ------------------------------------------------------------------ *)
(* Properties of the throughput derivation                             *)
(* ------------------------------------------------------------------ *)
\* the fixture file of a parsed key: <size> plus the suffix of its compression
FixtureOf(k) ==
  k[1] \o (IF k[3] = s_raw THEN s_fastq
           ELSE IF k[3] = s_bgz THEN s_fastq_bgzipped_gz ELSE s_fastq_gz)

\* the tables of the call that belong to the requested series and whose
\* fixture file is in test-data
InSeries(it) ==
  LET k == _parse_benchmark_key(it.key) IN
  /\ k # None
  /\ k[2] = call.cache_type
  /\ k[3] = call.file_format
  /\ it.key \in DOMAIN call.available_results
  /\ call.disk.exists
  /\ ~call.disk.denied
  /\ FixtureOf(k) \in DOMAIN call.disk.files

\* (size label, command, mean) of the run records with a positive mean
PositiveRecords ==
  {p \in UNION {{<<i, j>> : j \in 1..Len(call.all_data[i].table.rows)} :
                  i \in 1..Len(call.all_data)} :
     /\ InSeries(call.all_data[p[1]])
     /\ call.all_data[p[1]].table.rows[p[2]].mean.v > 0}

RecordLabel(p) ==
  <<Upper(Split(call.all_data[p[1]].key, s_us)[1]),
    call.all_data[p[1]].table.rows[p[2]].command,
    call.all_data[p[1]].table.rows[p[2]].mean>>

\* C10: no throughput row comes from a record whose mean is zero or negative
\* (no row, no division by zero), and the records with a positive mean of
\* the same tables each produce their row.
C10_NonPositiveMeanOmitted ==
  pc = "plotted" =>
    /\ \A i \in 1..Len(plotted.rows) :
         /\ plotted.rows[i].mean_time.v > 0
         /\ plotted.rows[i].throughput_gbs.d # 0
         /\ plotted.rows[i].throughput_stddev.d # 0
    /\ Len(plotted.rows) = Cardinality(PositiveRecords)
    /\ {RecordLabel(p) : p \in PositiveRecords}
         = {<<plotted.rows[i].size_display, plotted.rows[i].command, plotted.rows[i].mean_time>> :
              i \in 1..Len(plotted.rows)}

C10_Witness ==
  /\ pc = "plotted"
  /\ call.cache_type = s_hot
  /\ call.file_format = s_raw
  /\ Len(call.all_data) = 1
  /\ call.all_data[1].key = Join(<<s_1m, s_hot, s_raw>>, s_us)
  /\ Len(call.all_data[1].table.rows) = 2
  /\ call.all_data[1].table.rows[1].mean = JNum(0)
  /\ call.all_data[1].table.rows[2].mean = JNum(2)
  /\ Len(plotted.rows) = 1
  /\ plotted.rows[1].command = JStr("B")
  /\ plotted.rows[1].mean_time = JNum(2)

\* the number of factors 2 of a positive integer, and what is left of it
RECURSIVE Twos(_)
Twos(n) == IF n % 2 = 0 THEN 1 + Twos(n \div 2) ELSE 0

RECURSIVE OddPart(_)
OddPart(n) == IF n % 2 = 0 THEN OddPart(n \div 2) ELSE n

\* the value n / d * 1024^e in lowest terms: odd numerator, odd denominator
\* and the power of two between them
Canon(q) ==
  IF q.n = 0 THEN <<0, 1, 0>>
  ELSE LET g == Gcd(q.n, q.d)
           n == q.n \div g
           d == q.d \div g IN
       <<OddPart(n), OddPart(d), 10 * q.e + Twos(n) - Twos(d)>>

\* the run record and the fixture size in bytes behind a record of the series
RecordOf(p) == call.all_data[p[1]].table.rows[p[2]]
BytesOf(p) == call.disk.files[FixtureOf(_parse_benchmark_key(call.all_data[p[1]].key))]

\* the throughput rows of the record p
RowsOf(p) ==
  {i \in 1..Len(plotted.rows) :
     <<plotted.rows[i].size_display, plotted.rows[i].command, plotted.rows[i].mean_time>>
       = RecordLabel(p)}

\* C11 as stated: the row of a record with a positive mean has throughput
\* file_size_bytes / mean in bytes per second and spread
\* file_size_bytes * stddev / mean^2, a null stddev counting as 0.
C11_AsStated ==
  pc = "plotted" =>
    \A p \in PositiveRecords : \A i \in RowsOf(p) :
      LET mean == RecordOf(p).mean.v
          stddev == IF RecordOf(p).stddev = JNull THEN 0 ELSE RecordOf(p).stddev.v
          bytes == BytesOf(p) IN
      /\ Canon(plotted.rows[i].throughput_gbs) = Canon(Q(bytes.n, bytes.d * mean, bytes.e))
      /\ Canon(plotted.rows[i].throughput_stddev)
           = Canon(Q(bytes.n * stddev, bytes.d * mean * mean, bytes.e))

\* C11 amended: the row of a record with a positive mean has throughput
\* (file_size_bytes / 1024^3) / mean, in GiB per second, and spread
\* (file_size_bytes / 1024^3) * stddev / mean^2, a null stddev counting as 0.
C11_GibPerSecond ==
  pc = "plotted" =>
    \A p \in PositiveRecords :
      /\ RowsOf(p) # {}
      /\ \A i \in RowsOf(p) :
           LET mean == RecordOf(p).mean.v
               stddev == IF RecordOf(p).stddev = JNull THEN 0 ELSE RecordOf(p).stddev.v
               bytes == BytesOf(p) IN
           /\ Canon(plotted.rows[i].throughput_gbs)
                = Canon(Q(bytes.n, bytes.d * mean, bytes.e - 3))
           /\ Canon(plotted.rows[i].throughput_stddev)
                = Canon(Q(bytes.n * stddev, bytes.d * mean * mean, bytes.e - 3))

C11_Witness ==
  /\ pc = "plotted"
  /\ call.cache_type = s_hot
  /\ call.file_format = s_raw
  /\ call.disk = FullDisk
  /\ Len(call.all_data) = 1
  /\ call.all_data[1].key = Join(<<s_10m, s_hot, s_raw>>, s_us)
  /\ Len(call.all_data[1].table.rows) = 2
  /\ call.all_data[1].table.rows[1] = RunRecord("A", 2, JNum(1))
  /\ call.all_data[1].table.rows[2] = RunRecord("B", 4, JNull)
  /\ Len(plotted.rows) = 2
  /\ Canon(plotted.rows[1].throughput_gbs) = Canon(Q(1500, 1, 0 - 3))
  /\ Canon(plotted.rows[1].throughput_stddev) = Canon(Q(750, 1, 0 - 3))
  /\ Canon(plotted.rows[2].throughput_gbs) = Canon(Q(750, 1, 0 - 3))
  /\ plotted.rows[2].throughput_stddev.n = 0

\* the tables the call selects: non-empty, of the requested cache state and
\* compression
Selected(it) ==
  LET k == _parse_benchmark_key(it.key) IN
  /\ k # None
  /\ k[2] = call.cache_type
  /\ k[3] = call.file_format
  /\ it.table.rows # <<>>

\* the fixture of the key cannot be read: test-data is missing or refuses
\* access, or holds no fixture of that size and compression
SizeUnresolved(it) ==
  \/ ~call.disk.exists
  \/ call.disk.denied
  \/ FixtureOf(_parse_benchmark_key(it.key)) \notin DOMAIN call.disk.files

\* C12: for a selected key whose input size cannot be resolved,
\* get_file_size_bytes returns None (no number, no error), plot_throughput
\* reports the key and has no row for it, and the records of the remaining
\* keys still have their rows.
C12_UnknownSizeOmitted ==
  pc = "plotted" =>
    /\ \A n \in 1..Len(call.all_data) :
         LET it == call.all_data[n] IN
         (Selected(it) /\ SizeUnresolved(it)) =>
           (/\ get_file_size_bytes(call.available_results[it.key], call.disk) = Unknown
            /\ \E m \in 1..Len(plotted.printed) :
                 plotted.printed[m] = [msg |-> "could not get file size", key |-> it.key]
            /\ \A i \in 1..Len(plotted.rows) :
                 plotted.rows[i].size_display # Upper(Split(it.key, s_us)[1]))
    /\ \A p \in PositiveRecords : RowsOf(p) # {}
    /\ Len(plotted.rows) = Cardinality(PositiveRecords)

C12_Witness ==
  /\ pc = "plotted"
  /\ call.cache_type = s_hot
  /\ call.file_format = s_raw
  /\ call.disk = PartialDisk
  /\ Len(call.all_data) = 2
  /\ call.all_data[1].key = Join(<<s_10m, s_hot, s_raw>>, s_us)
  /\ call.all_data[1].table.rows = <<RunRecord("A", 2, JNum(1))>>
  /\ call.all_data[2].key = Join(<<s_1m, s_hot, s_raw>>, s_us)
  /\ call.all_data[2].table.rows = <<RunRecord("A", 4, JNull)>>
  /\ plotted.returned = "chart"
  /\ Len(plotted.rows) = 1
  /\ plotted.rows[1].size_display = Upper(s_1m)
  /\ plotted.printed = <<[msg |-> "could not get file size", key |-> call.all_data[1].key]>>

(* ------------------------------------------------------------------ *)
(* Properties of the input-size lookup                                 *)
(* ------------------------------------------------------------------ *)
\* the result path as one string
ResultPathStr == Join(result_path, s_slash)

\* the really-cold labels in the order they are tried, and their byte counts
SyntheticLabels ==
  <<s_really_cold \o s_us \o s_10mb, s_really_cold \o s_us \o s_100mb,
    s_really_cold \o s_us \o s_1gb, s_really_cold \o s_us \o s_4gb>>
SyntheticBytes == <<Q(10, 1, 2), Q(100, 1, 2), Q(1, 1, 3), Q(4, 1, 3)>>

\* C13: a path containing really_cold_10mb, really_cold_100mb, really_cold_1gb
\* or really_cold_4gb (the first of them, in this order, when it contains
\* several) gives 10*1024^2, 100*1024^2, 1024^3 or 4*1024^3 bytes, whatever
\* compression words the path contains and whatever test-data holds.
C13_SyntheticFirst ==
  pc = "sized" =>
    \A i \in 1..4 :
      (/\ Contains(ResultPathStr, SyntheticLabels[i])
       /\ \A j \in 1..(i - 1) : ~Contains(ResultPathStr, SyntheticLabels[j]))
        => (/\ sized.size.known
            /\ Canon(sized.size.size) = Canon(SyntheticBytes[i])
            /\ sized.file_path = None)

C13_Witness ==
  /\ pc = "sized"
  /\ result_path = <<s_raw, s_1m, Join(<<s_really_cold, s_1gb>>, s_us) \o s_json>>
  /\ test_data = AllFixtures
  /\ sized.size = Known(Q(1, 1, 3))

\* the benchmark key of a result path <size>/<cache>_<compression>.json
PathKey ==
  IF Len(result_path) >= 2
    THEN LET file_name == result_path[Len(result_path)] IN
         _parse_benchmark_key(result_path[Len(result_path) - 1] \o s_us
                                \o SubSeq(file_name, 1, Len(file_name) - Len(s_json)))
    ELSE None

\* C14: when get_file_size_bytes returns a size for a hot or cold benchmark,
\* it is the size of the fixture <size>.fastq (raw), <size>.fastq_bgzipped.gz
\* (bgz) or <size>.fastq.gz (gz) of the benchmark's own size and compression.
C14_FixtureOfKey ==
  (/\ pc = "sized"
   /\ PathKey # None
   /\ sized.file_path # None)
    => (PathKey[2] \in CacheTokens => sized.file_path = FixtureOf(PathKey))

(* ------------------------------------------------------------------ *)
(* Properties of the mean-time grid                                    *)
(* ------------------------------------------------------------------ *)
\* the tables of the view that are non-empty and whose key parses to the
\* requested cache state
Qualifies(it) ==
  /\ it.table.rows # <<>>
  /\ _parse_benchmark_key(it.key) # None
  /\ _parse_benchmark_key(it.key)[2] = view.cache_type
QualifyingItems == {n \in 1..Len(view.data_dict) : Qualifies(view.data_dict[n])}

\* the cells of the grid, as (row, column) positions
GridCells ==
  UNION {{<<r, c>> : c \in 1..Len(grid.rows[r].charts)} : r \in 1..Len(grid.rows)}
ChartAt(rc) == grid.rows[rc[1]].charts[rc[2]]
DataCells == {rc \in GridCells : ChartAt(rc).mark = "bar"}

\* C15: every row of every data cell is a record of a non-empty table whose
\* key parses to the requested cache state, in the cell of that key; sizes
\* and compressions of the grid come from such tables only; a call with no
\* such table returns None and a call with one returns the grid.
C15_OnlyRequestedCacheState ==
  pc = "gridded" =>
    /\ \A rc \in DataCells : \A k \in 1..Len(ChartAt(rc).data) :
         LET row == ChartAt(rc).data[k] IN
         \E n \in QualifyingItems :
           LET it == view.data_dict[n]
               key3 == _parse_benchmark_key(it.key) IN
           /\ it.key = row.benchmark_name
           /\ key3[1] = grid.sizes[rc[1]]
           /\ key3[3] = grid.compressions[rc[2]]
           /\ \E j \in 1..Len(it.table.rows) :
                it.table.rows[j].command = row.command /\ it.table.rows[j].mean = row.mean
    /\ \A r \in 1..Len(grid.sizes) :
         \E n \in QualifyingItems : _parse_benchmark_key(view.data_dict[n].key)[1] = grid.sizes[r]
    /\ \A c \in 1..Len(grid.compressions) :
         \E n \in QualifyingItems :
           _parse_benchmark_key(view.data_dict[n].key)[3] = grid.compressions[c]
    /\ (grid.returned = "chart") <=> (QualifyingItems # {})
    /\ (grid.returned = "chart") => (DataCells # {})

C15_Witness ==
  /\ pc = "gridded"
  /\ view.cache_type = s_hot
  /\ Len(view.data_dict) = 2
  /\ view.data_dict[1].key = Join(<<s_1m, s_cold, s_raw>>, s_us)
  /\ view.data_dict[1].table.rows = <<RunRecord("B", 2, JNull)>>
  /\ view.data_dict[2].key = Join(<<s_1m, s_hot, s_raw>>, s_us)
  /\ view.data_dict[2].table.rows = <<RunRecord("A", 2, JNum(1))>>
  /\ grid.returned = "chart"
  /\ Len(grid.rows) = 1
  /\ Len(grid.rows[1].charts) = 1
  /\ Len(grid.rows[1].charts[1].data) = 1
  /\ grid.rows[1].charts[1].data[1].command = JStr("A")

\* the commands of a sequence of rows, and of the tables of the view
CommandsOf(rows) == {rows[k].command : k \in 1..Len(rows)}
InputCommands ==
  UNION {CommandsOf(view.data_dict[n].table.rows) : n \in 1..Len(view.data_dict)}
GridCommands == UNION {CommandsOf(ChartAt(rc).data) : rc \in DataCells}

\* each row of the grid has one cell for each compression of the grid, a
\* cell without table is a "No Data" cell
GridIsComplete ==
  /\ Len(grid.rows) = Len(grid.sizes)
  /\ \A r \in 1..Len(grid.rows) :
       /\ Len(grid.rows[r].charts) = Len(grid.compressions)
       /\ \A c \in 1..Len(grid.compressions) :
            LET cell == grid.rows[r].charts[c] IN
            \/ cell.mark = "bar" /\ cell.data # <<>>
            \/ /\ cell.mark = "No Data"
               /\ \A n \in QualifyingItems :
                    LET key3 == _parse_benchmark_key(view.data_dict[n].key) IN
                    ~(key3[1] = grid.sizes[r] /\ key3[3] = grid.compressions[c])

\* C16 as stated: the colour domain of each data cell lists every command
\* observed across the input tables, and the grid has a cell ("No Data" where
\* there is no table) for every (size, compression) pair.
C16_AsStated ==
  (pc = "gridded" /\ grid.returned = "chart") =>
    /\ \A rc \in DataCells :
         {JStr(ChartAt(rc).domain[k]) : k \in 1..Len(ChartAt(rc).domain)} = InputCommands
    /\ GridIsComplete

\* C16 amended: the colour domain of each data cell lists every command that
\* has a row in some cell of the grid (and no other), and the grid has a cell
\* ("No Data" where there is no table) for every (size, compression) pair, so
\* every row has the same number of cells.
C16_GridCommandsInEveryCell ==
  (pc = "gridded" /\ grid.returned = "chart") =>
    /\ \A rc \in DataCells :
         {JStr(ChartAt(rc).domain[k]) : k \in 1..Len(ChartAt(rc).domain)} = GridCommands
    /\ GridIsComplete

C16_Witness ==
  /\ pc = "gridded"
  /\ view.cache_type = s_hot
  /\ Len(view.data_dict) = 2
  /\ view.data_dict[1].key = Join(<<s_1m, s_hot, s_raw>>, s_us)
  /\ view.data_dict[1].table.rows = <<RunRecord("A", 2, JNum(1))>>
  /\ view.data_dict[2].key = Join(<<s_10m, s_hot, s_gz>>, s_us)
  /\ view.data_dict[2].table.rows = <<RunRecord("B", 2, JNull)>>
  /\ Len(grid.rows) = 2
  /\ grid.rows[1].charts[1].mark = "bar"
  /\ grid.rows[1].charts[1].domain = <<"A", "B">>
  /\ grid.rows[1].charts[2].mark = "No Data"
  /\ grid.rows[2].charts[1].mark = "No Data"
  /\ grid.rows[2].charts[2].domain = <<"A", "B">>

(* ------------------------------------------------------------------ *)
(* Properties of the scaling series                                    *)
(* ------------------------------------------------------------------ *)
\* the tables of the call whose key names the requested cache state and
\* format, with the size the key starts with
SeriesItems ==
  {n \in 1..Len(scaling_call.all_data) :
     LET tokens == Split(scaling_call.all_data[n].key, s_us) IN
     /\ Len(tokens) = 3
     /\ tokens[2] = scaling_call.cache_type
     /\ tokens[3] = scaling_call.file_format}

\* C17: every point of the scaling series is a run record of a table of the
\* series, plotted at the size of that table's key; what is printed for a
\* command lists its own points only.
C17_NoInventedPoints ==
  pc = "scaled" =>
    /\ \A i \in 1..Len(scaled.scaling_rows) :
         LET point == scaled.scaling_rows[i] IN
         \E n \in SeriesItems :
           LET it == scaling_call.all_data[n] IN
           /\ point.size_display = Upper(Split(it.key, s_us)[1])
           /\ \E j \in 1..Len(it.table.rows) :
                /\ it.table.rows[j].command = point.command
                /\ it.table.rows[j].mean = point.mean
    /\ \A k \in 1..Len(scaled.analysis) :
         \A j \in 1..Len(scaled.analysis[k].rows) :
           /\ scaled.analysis[k].rows[j].command = JStr(scaled.analysis[k].parser)
           /\ \E i \in 1..Len(scaled.scaling_rows) :
                scaled.scaling_rows[i] = scaled.analysis[k].rows[j]

C17_Witness ==
  /\ pc = "scaled"
  /\ scaling_call.cache_type = s_hot
  /\ Len(scaling_call.all_data) = 2
  /\ scaling_call.all_data[1].key = Join(<<s_1m, s_hot, s_raw>>, s_us)
  /\ scaling_call.all_data[1].table.rows = <<RunRecord("A", 2, JNum(1))>>
  /\ scaling_call.all_data[2].key = Join(<<s_10m, s_hot, s_raw>>, s_us)
  /\ scaling_call.all_data[2].table.rows = <<RunRecord("B", 2, JNull)>>
  /\ Len(scaled.scaling_rows) = 2
  /\ scaled.scaling_rows[1].command = JStr("A")
  /\ scaled.scaling_rows[1].size_display = Upper(s_1m)
  /\ scaled.scaling_rows[2].command = JStr("B")
  /\ scaled.scaling_rows[2].size_display = Upper(s_10m)

\* the points of a command, and those at its smallest and at its largest size
PointsOf(parser) ==
  {i \in 1..Len(scaled.scaling_rows) : scaled.scaling_rows[i].command = JStr(parser)}
SizeAt(i) == scaled.scaling_rows[i].size_value
AtSmallest(parser) ==
  {i \in PointsOf(parser) : \A j \in PointsOf(parser) : ~Less(SizeAt(j), SizeAt(i))}
AtLargest(parser) ==
  {i \in PointsOf(parser) : \A j \in PointsOf(parser) : ~Less(SizeAt(i), SizeAt(j))}

\* C18: for a command with points at two or more sizes, the efficiency
\* printed is (mean at the largest size / mean at the smallest size) divided
\* by (largest size / smallest size), and it is computed exactly when the
\* mean at the smallest size and the smallest size are positive.
C18_ScalingEfficiency ==
  pc = "scaled" =>
    \A k \in 1..Len(scaled.analysis) :
      LET parser == scaled.analysis[k].parser
          scaling == scaled.analysis[k].scaling IN
      (AtSmallest(parser) \cap AtLargest(parser) = {}) =>
        \E s \in AtSmallest(parser), l \in AtLargest(parser) :
          LET small_mean == scaled.scaling_rows[s].mean.v
              large_mean == scaled.scaling_rows[l].mean.v IN
          /\ scaling.computed <=> (small_mean > 0 /\ SizeAt(s).num > 0)
          /\ scaling.computed =>
               (scaling.scaling_efficiency.num * small_mean * SizeAt(l).num * SizeAt(s).den
                  = scaling.scaling_efficiency.den * large_mean * SizeAt(s).num * SizeAt(l).den)

C18_Witness ==
  /\ pc = "scaled"
  /\ scaling_call.cache_type = s_hot
  /\ Len(scaling_call.all_data) = 2
  /\ scaling_call.all_data[1].key = Join(<<s_10m, s_hot, s_raw>>, s_us)
  /\ scaling_call.all_data[1].table.rows = <<RunRecord("A", 2, JNum(1))>>
  /\ scaling_call.all_data[2].key = Join(<<s_1m, s_hot, s_raw>>, s_us)
  /\ scaling_call.all_data[2].table.rows = <<RunRecord("A", 2, JNum(1))>>
  /\ Len(scaled.analysis) = 1
  /\ scaled.analysis[1].scaling.computed
  /\ scaled.analysis[1].scaling.scaling_efficiency.num * 10
       = scaled.analysis[1].scaling.scaling_efficiency.den

(* ------------------------------------------------------------------ *)
(* Properties of the size ordering                                     *)
(* ------------------------------------------------------------------ *)
\* what float() makes of a label without its m and M
Magnitude(label) == ParseFloat(Remove(Remove(label, "m"), "M"))
Parsable(label) == label # s_default /\ Magnitude(label).ok

\* C19: in the sorted sizes "default" comes before every other label, labels
\* with a parsable magnitude are in numeric order, and every label whose
\* magnitude cannot be parsed comes after all parsable ones.
C19_SizeOrder ==
  pc = "sorted" =>
    \A i, j \in 1..Len(sorted_sizes) :
      /\ (sorted_sizes[j] = s_default) => (j = 1)
      /\ (/\ Parsable(sorted_sizes[i]) /\ Parsable(sorted_sizes[j])
          /\ Less(Magnitude(sorted_sizes[i]), Magnitude(sorted_sizes[j]))) => (i < j)
      /\ (/\ Parsable(sorted_sizes[i])
          /\ sorted_sizes[j] # s_default /\ ~Magnitude(sorted_sizes[j]).ok) => (i < j)

(* ------------------------------------------------------------------ *)
(* Properties of the records the loader builds                         *)
(* ------------------------------------------------------------------ *)
\* the positions in the results list of the entries that survive filtering
Survivors ==
  SelectSeq([j \in 1..Len(FileEntries) |-> j],
            LAMBDA j : /\ FileEntries[j].t = "obj"
                       /\ ExitCodesAllZero(FileEntries[j])
                       /\ HasMean(FileEntries[j]))

\* C20: the record of a surviving entry has stddev 0.0, median, min and max
\* equal to mean, and times = [mean], each where the entry omits the field;
\* a field the entry supplies is kept as it is.
C20_RecordDefaults ==
  (pc = "loaded" /\ loaded.raised = NoException) =>
    /\ Len(loaded.table.rows) = Len(Survivors)
    /\ \A i \in 1..Len(loaded.table.rows) :
         LET e == FileEntries[Survivors[i]].v
             row == loaded.table.rows[i] IN
         /\ row.command = e["command"]
         /\ row.mean = e["mean"]
         /\ row.stddev = (IF "stddev" \in DOMAIN e THEN e["stddev"] ELSE JNum(0))
         /\ row.median = (IF "median" \in DOMAIN e THEN e["median"] ELSE e["mean"])
         /\ row.min = (IF "min" \in DOMAIN e THEN e["min"] ELSE e["mean"])
         /\ row.max = (IF "max" \in DOMAIN e THEN e["max"] ELSE e["mean"])
         /\ row.times = (IF "times" \in DOMAIN e THEN e["times"] ELSE JList(<<e["mean"]>>))

C20_Witness ==
  /\ pc = "loaded"
  /\ loaded.raised = NoException
  /\ Len(FileEntries) = 2
  /\ FileEntries[1] = EntryOf(JStr("A"), JNum(2), Absent, {"median"})
  /\ FileEntries[2] = EntryOf(JStr("B"), JNum(2), Absent, {})
  /\ Len(loaded.table.rows) = 2
  /\ loaded.table.rows[1].median = JNum(3)
  /\ loaded.table.rows[1].stddev = JNum(0)
  /\ loaded.table.rows[1].min = JNum(2)
  /\ loaded.table.rows[1].times = JList(<<JNum(2)>>)
  /\ loaded.table.rows[2].median = JNum(2)
  /\ loaded.table.rows[2].max = JNum(2)

(* ------------------------------------------------------------------ *)
(* Properties of a results file with no surviving entry                *)
(* ------------------------------------------------------------------ *)
\* a readable JSON document whose results list holds objects only
WellFormed ==
  /\ ~Malformed
  /\ \A j \in 1..Len(FileEntries) : FileEntries[j].t = "obj"

\* every entry has a non-zero exit code or no mean (an empty list included)
NoSurvivor ==
  \A j \in 1..Len(FileEntries) :
    ~ExitCodesAllZero(FileEntries[j]) \/ ~HasMean(FileEntries[j])

\* C21: for a well-formed results file in which no entry survives (every
\* entry has a non-zero exit code or no mean, or the list is empty),
\* parse_benchmark_data raises nothing and returns a table with no row and
\* the seven columns command, mean, stddev, median, min, max, times.
C21_NoSurvivorGivesEmptyTable ==
  (pc = "loaded" /\ WellFormed /\ NoSurvivor) =>
    /\ loaded.raised = NoException
    /\ loaded.table.rows = <<>>
    /\ loaded.table.columns = <<"command", "mean", "stddev", "median", "min", "max", "times">>

C21_Witness ==
  /\ pc = "loaded"
  /\ WellFormed
  /\ NoSurvivor
  /\ Len(FileEntries) = 2
  /\ FileEntries[1] = EntryOf(JStr("A"), JNum(2), JList(<<JNum(0), JNum(1)>>), {})
  /\ FileEntries[2] = EntryOf(Absent, JNull, Absent, {})
  /\ loaded.raised = NoException
  /\ loaded.table = EmptyTable
  /\ Len(loaded.printed) = 3

(* ------------------------------------------------------------------ *)
(* Properties of a view no table provides data for                     *)
(* ------------------------------------------------------------------ *)
\* a non-empty table whose key the parser assigns to the cache state
ProvidesData(it, cache_type) ==
  /\ it.table.rows # <<>>
  /\ _parse_benchmark_key(it.key) # None
  /\ _parse_benchmark_key(it.key)[2] = cache_type

NoDataFor(items, cache_type) ==
  \A i \in 1..Len(items) : ~ProvidesData(items[i], cache_type)

MeanTimesSkipped ==
  (pc = "gridded" /\ NoDataFor(view.data_dict, view.cache_type)) =>
    (grid.returned = "None" /\ grid.rows = <<>>)

ScalingSkipped ==
  (pc = "scaled" /\ NoDataFor(scaling_call.all_data, scaling_call.cache_type)) =>
    (scaled.returned = "None" /\ scaled.scaling_rows = <<>>)

ThroughputSkipped ==
  (pc = "plotted" /\ NoDataFor(call.all_data, call.cache_type)) =>
    (plotted.returned = "None" /\ plotted.rows = <<>>)

ScatterSkipped ==
  (pc = "scattered" /\ NoDataFor(scatter_dict, s_hot)) =>
    (scattered.returned = "None" /\ scattered.rows = <<>> /\ scattered.charts = <<>>)

\* C22: when no table provides data for the requested view (no non-empty
\* table of the requested cache state), each of plot_mean_times,
\* plot_test_size_scaling, plot_throughput and plot_scatter_runs returns
\* None and renders nothing, in particular no table of another cache state.
C22_EmptyViewSkipped ==
  /\ MeanTimesSkipped
  /\ ScalingSkipped
  /\ ThroughputSkipped
  /\ ScatterSkipped

(* ------------------------------------------------------------------ *)
(* Properties of the column ordering                                   *)
(* ------------------------------------------------------------------ *)
KnownCompressions == {s_raw, s_gz, s_bgz}

\* C23: the columns are the compressions of the grid, each once, with raw
\* before gz before bgz, and every compression other than these three after
\* all three.
C23_CompressionOrder ==
  pc = "ordered" =>
    /\ Len(columns) = Cardinality(compression_set)
    /\ {columns[i] : i \in 1..Len(columns)} = compression_set
    /\ \A i, j \in 1..Len(columns) :
         /\ (columns[i] = s_raw /\ columns[j] # s_raw) => (i < j)
         /\ (columns[i] = s_gz /\ columns[j] \notin {s_raw, s_gz}) => (i < j)
         /\ (columns[i] = s_bgz /\ columns[j] \notin KnownCompressions) => (i < j)

C23_Witness ==
  /\ pc = "ordered"
  /\ compression_set = {s_bgz, s_xz, s_raw, s_gz}
  /\ columns = <<s_raw, s_gz, s_bgz, s_xz>>

(* ------------------------------------------------------------------ *)
(* Properties of the key selection of the series                       *)
(* ------------------------------------------------------------------ *)
\* the key of the table a point of a series was computed from
ScalingSources == {MarkedKeys[scaled.scaling_rows[i].mean.v] : i \in 1..Len(scaled.scaling_rows)}
ThroughputSources == {MarkedKeys[plotted.rows[i].mean_time.v] : i \in 1..Len(plotted.rows)}

\* C24: no point of a scaling or throughput series, for cache_type cold or
\* hot, comes from a table whose key contains really_cold.
C24_ReallyColdNeverSelected ==
  /\ (pc = "scaled") => \A k \in ScalingSources : ~Contains(k, s_really_cold)
  /\ (pc = "plotted") => \A k \in ThroughputSources : ~Contains(k, s_really_cold)

C24_Witness ==
  /\ pc = "scaled"
  /\ scaling_call.cache_type = s_cold
  /\ scaling_call.file_format = s_raw
  /\ Len(scaling_call.all_data) = 2
  /\ scaling_call.all_data[1] = [key |-> MarkedKeys[3], table |-> MarkedTable(3)]
  /\ scaling_call.all_data[2] = [key |-> MarkedKeys[2], table |-> MarkedTable(2)]
  /\ Contains(MarkedKeys[3], s_us \o s_cold \o s_us)
  /\ scaled.returned = "chart"
  /\ ScalingSources = {MarkedKeys[2]}

(* ------------------------------------------------------------------ *)
(* Properties of tables that share a cell                              *)
(* ------------------------------------------------------------------ *)
\* the records of the n-th table of the view are rows of a data cell
ShownInGrid(n) ==
  \A j \in 1..Len(view.data_dict[n].table.rows) :
    \E rc \in DataCells : \E k \in 1..Len(ChartAt(rc).data) :
      /\ ChartAt(rc).data[k].benchmark_name = view.data_dict[n].key
      /\ ChartAt(rc).data[k].command = view.data_dict[n].table.rows[j].command
      /\ ChartAt(rc).data[k].mean = view.data_dict[n].table.rows[j].mean

\* the same for the grid of plot_scatter_runs, whose cache state is hot
ShownInScatter(n) ==
  \E r \in 1..Len(scattered.rows) : \E c \in 1..Len(scattered.rows[r].charts) :
    /\ scattered.rows[r].charts[c].mark = "circle"
    /\ scattered.rows[r].charts[c].name = scatter_dict[n].key

ScatterKeepsEveryTable ==
  (pc = "scattered" /\ scattered.layout = "grid") =>
    \A n \in 1..Len(scatter_dict) : ProvidesData(scatter_dict[n], s_hot) => ShownInScatter(n)

\* C25: every non-empty table whose key parses to the requested cache state
\* has its rows in the grid of plot_mean_times, also when another key of
\* data_dict parses to the same (compression, size) cell.
C25_NoTableDisplaced ==
  pc = "gridded" => \A n \in QualifyingItems : ShownInGrid(n)

(* ------------------------------------------------------------------ *)
(* Properties relating the series to the key parser                    *)
(* ------------------------------------------------------------------ *)
\* the parser assigns the key to (size, cache_type, file_format), size a number
ParsesTo(key, cache_type, file_format) ==
  LET key3 == _parse_benchmark_key(key) IN
  /\ key3 # None
  /\ key3[2] = cache_type
  /\ key3[3] = file_format
  /\ ParseFloat(Remove(Remove(key3[1], "m"), "M")).ok

\* the keys of the non-empty tables of a dict
NonEmptyKeys(items) == {items[n].key : n \in {m \in 1..Len(items) : items[m].table.rows # <<>>}}

\* C26: plot_test_size_scaling and plot_throughput called with (c, f) draw
\* points from a non-empty table exactly when _parse_benchmark_key parses
\* its key to (size, c, f) with a numeric size.
C26_SelectionAgreesWithParser ==
  /\ (pc = "scaled") =>
       \A k \in NonEmptyKeys(scaling_call.all_data) :
         (k \in ScalingSources)
           <=> ParsesTo(k, scaling_call.cache_type, scaling_call.file_format)
  /\ (pc = "plotted") =>
       \A k \in NonEmptyKeys(call.all_data) :
         (k \in ThroughputSources) <=> ParsesTo(k, call.cache_type, call.file_format)

\* the two directions on their own, and the keys of the documented form
SelectedOnlyIfParsed ==
  /\ (pc = "scaled") =>
       \A k \in ScalingSources :
         ParsesTo(k, scaling_call.cache_type, scaling_call.file_format)
  /\ (pc = "plotted") =>
       \A k \in ThroughputSources : ParsesTo(k, call.cache_type, call.file_format)

ParsedOnlyIfSelected ==
  /\ (pc = "scaled") =>
       \A k \in NonEmptyKeys(scaling_call.all_data) :
         ParsesTo(k, scaling_call.cache_type, scaling_call.file_format)
           => (k \in ScalingSources)
  /\ (pc = "plotted") =>
       \A k \in NonEmptyKeys(call.all_data) :
         ParsesTo(k, call.cache_type, call.file_format) => (k \in ThroughputSources)

(* ------------------------------------------------------------------ *)
(* Properties of the really-cold speedup analysis                      *)
(* ------------------------------------------------------------------ *)
\* the rows of the really-cold series at one size
RowsAtSize(size) == SelectSeq(cold_scaled.scaling_rows, LAMBDA r : r.size = size)

\* C27: plot_really_cold_scaling ends without a division by zero for every
\* dict of tables, also when a command has mean 0, and a speedup is printed
\* only for a size whose fastest mean time is positive.
C27_SpeedupDivisorPositive ==
  pc = "cold_scaled" =>
    /\ cold_scaled.raised # "ZeroDivisionError"
    /\ \A i \in 1..Len(cold_scaled.printed) :
         (cold_scaled.printed[i].msg = "speedup") =>
           \E k \in 1..Len(size_display) :
             /\ Len(RowsAtSize(size_display[k])) >= 2
             /\ Fastest(RowsAtSize(size_display[k])).mean.v > 0
             /\ cold_scaled.printed[i].speedup
                  = Frac(Slowest(RowsAtSize(size_display[k])).mean.v,
                         Fastest(RowsAtSize(size_display[k])).mean.v)

\* the function ends without any exception
ReallyColdNeverRaises == (pc = "cold_scaled") => (cold_scaled.raised = NoException)

(* ------------------------------------------------------------------ *)
(* Properties of the raw against gzipped comparison                    *)
(* ------------------------------------------------------------------ *)
\* C28: compare_raw_vs_gzipped ends without a division by zero for every
\* dict of hot raw and hot gz tables, also when a table holds a mean of 0,
\* and a gzipped/raw ratio is printed only for a positive raw mean time.
C28_RatioDivisorPositive ==
  pc = "compared" =>
    /\ compared.raised # "ZeroDivisionError"
    /\ \A i \in 1..Len(compared.printed) :
         (compared.printed[i].msg = "ratio") => (compared.printed[i].raw_time > 0)

(* ------------------------------------------------------------------ *)
(* Properties of the rows the loader returns                           *)
(* ------------------------------------------------------------------ *)
\* C29: the table parse_benchmark_data returns has exactly one row per
\* surviving results entry, in file order: the i-th row is the record of the
\* i-th surviving entry, so none is dropped, merged with another entry of the
\* same command, duplicated or reordered.
C29_OneRowPerSurvivorInFileOrder ==
  (pc = "loaded" /\ loaded.raised = NoException) =>
    /\ Len(loaded.table.rows) = Len(Survivors)
    /\ \A i \in 1..Len(Survivors) :
         loaded.table.rows[i] = MakeRecord(FileEntries[Survivors[i]].v)

\* two surviving entries of the same command, the slower one first
C29_Witness ==
  /\ pc = "loaded"
  /\ loaded.raised = NoException
  /\ Len(FileEntries) = 2
  /\ FileEntries[1] = EntryOf(JStr("A"), JNum(2), Absent, {})
  /\ FileEntries[2] = EntryOf(JStr("A"), JNum(0), JList(<<JNum(0), JNum(0)>>), {})
  /\ Len(loaded.table.rows) = 2
  /\ loaded.table.rows[1].command = JStr("A")
  /\ loaded.table.rows[1].mean = JNum(2)
  /\ loaded.table.rows[2].command = JStr("A")
  /\ loaded.table.rows[2].mean = JNum(0)

====
